---------------------------- MODULE Spec2Model ----------------------------
(***************************************************************************)
(* A model of SceneManager (Source/SceneManager.cpp): the texture registry *)
(* (m_textureIDs, m_loadedTextures), the material registry                 *)
(* (m_objectMaterials), the uniforms of the shader, and the call sequences  *)
(* of PrepareScene and RenderScene.                                        *)
(*                                                                         *)
(* Tags are strings, compared as std::string::compare does (exact          *)
(* equality).  Colours and shininess are kept in thousandths, so 0.4f is   *)
(* 400 and 52.0 is 52000; so are lengths and matrix entries.  Angles are    *)
(* whole degrees.  GPU texture names are the positive integers glGenTextures *)
(* hands out, one after the other.                                         *)
(***************************************************************************)
EXTENDS Integers, Sequences, FiniteSets, TLC

VARIABLES
    m_pShaderManager,   \* "valid" or "null": the constructor's argument
    m_textureIDs,       \* [0..15 -> [tag, ID]]: the array of 16 TEXTURE_INFO
    m_loadedTextures,   \* the number of used slots
    overrun,            \* the storage right after m_textureIDs[15]
    m_objectMaterials,  \* the vector of OBJECT_MATERIAL records
    glNames,            \* how many texture names glGenTextures has handed out
    glBound2D,          \* per texture unit, the texture bound to GL_TEXTURE_2D
                        \* (0: none)
    glActiveTexture,    \* the active texture unit (0 is GL_TEXTURE0)
    heapImages,         \* decoded pixel buffers that were not freed
    stbiFlip,           \* stb_image's flip-vertically-on-load flag
    shader,             \* the uniforms of the shader program
    outMaterial,        \* the caller's OBJECT_MATERIAL passed to FindMaterial
    loaded,             \* history: <<tag, ID>> of each load that returned true
    lastCall,           \* history: the last operation, its arguments, its result
    pc,                 \* "running", or "crashed" after a fatal fault
    meshes,             \* the meshes m_basicMeshes has loaded
    scene,              \* the scene function that is running, the index of its
                        \* next call, the frames begun and whether PrepareScene
                        \* has returned: [fn, at, frames, prepared]
    sinceDraw           \* history: the calls since the last mesh draw, the
                        \* draws of the frame and the last of them

texVars == <<m_textureIDs, m_loadedTextures, overrun>>
glVars  == <<glNames, glBound2D, glActiveTexture, heapImages, stbiFlip>>
matVars == <<m_objectMaterials, shader, outMaterial>>
callerVars == <<scene, sinceDraw>>
vars    == <<m_pShaderManager, texVars, glVars, matVars, loaded, lastCall, pc,
             meshes, callerVars>>

-----------------------------------------------------------------------------
(* Constants of the program *)

\* the size of m_textureIDs
Capacity == 16

\* the tag the constructor gives to every unused slot
PlaceholderTag == "/0"

\* the value FindTextureID and FindTextureSlot start from, and the ID of an
\* unused slot
NotFound == 0 - 1

\* stbi_load's result: NoImage when it returns NULL, else the channel count
NoImage == 0
ImageResults == 0 .. 4

-----------------------------------------------------------------------------
(* Bounds of the model *)

\* registered or leaked loads out of the ordinary in one run: a load whose tag
\* repeats an earlier tag or is the placeholder tag, and a load of an image
\* with an unsupported channel count.  A load that fails is tried only while
\* fewer than MaxAnomalies of them have happened.
MaxAnomalies == 1

\* calls of DefineObjectMaterials in one run
MaxDefines == 2

\* the tags of LoadSceneTextures in their order, then six more, so that 17
\* loads can carry pairwise distinct tags
TagOrder ==
    << "floor", "shiplap", "brick", "mantle", "metal", "metal2", "bark",
       "tree_end", "rusticwood", "leaf", "cartoon",
       "tag12", "tag13", "tag14", "tag15", "tag16", "tag17" >>

AllTags == { TagOrder[i] : i \in 1 .. Len(TagOrder) } \cup { PlaceholderTag }

-----------------------------------------------------------------------------
(* The texture registry *)

\* m_textureIDs[i], where i = 16 is the storage past the end of the array
Slot(i) == IF i < Capacity THEN m_textureIDs[i] ELSE overrun

\* the constructor's loop over the 16 slots
EmptySlot == [tag |-> PlaceholderTag, ID |-> NotFound]

\* a variant of ImageLoaded without the test of stbi_load's result
ImageLoadedUnchecked(image) == TRUE

\* if (image)
ImageLoaded(image) == image # NoImage

\* a variant of ChannelsSupported without the final else branch
ChannelsUnchecked(colorChannels) == TRUE

\* colorChannels == 3 or colorChannels == 4; anything else returns false
ChannelsSupported(colorChannels) == colorChannels = 3 \/ colorChannels = 4

\* a variant of RegisterTexture that writes the first entry
RegisterTextureAtZero(ids, index, tag, textureID) ==
    [ids EXCEPT ![0] = [tag |-> tag, ID |-> textureID]]

\* m_textureIDs[m_loadedTextures].ID = textureID; ...tag = tag
RegisterTexture(ids, index, tag, textureID) ==
    [ids EXCEPT ![index] = [tag |-> tag, ID |-> textureID]]

RECURSIVE ScanTextureID(_, _)
ScanTextureID(tag, index) ==
    IF index < m_loadedTextures
    THEN IF Slot(index).tag = tag
         THEN Slot(index).ID
         ELSE ScanTextureID(tag, index + 1)
    ELSE NotFound

\* a variant of FindTextureID whose scan starts at index 1
FindTextureIDFromOne(tag) == ScanTextureID(tag, 1)

FindTextureID(tag) == ScanTextureID(tag, 0)

RECURSIVE ScanTextureSlot(_, _)
ScanTextureSlot(tag, index) ==
    IF index < m_loadedTextures
    THEN IF Slot(index).tag = tag
         THEN index
         ELSE ScanTextureSlot(tag, index + 1)
    ELSE NotFound

\* a variant of FindTextureSlot that does not stop at the first match
FindTextureSlotLastMatch(tag) ==
    LET hits == { i \in 0 .. m_loadedTextures - 1 : Slot(i).tag = tag }
    IN  IF hits = {} THEN NotFound
        ELSE CHOOSE i \in hits : \A j \in hits : j <= i

\* a variant of FindTextureSlot that scans all 16 slots
FindTextureSlotAllSlots(tag) ==
    LET hits == { i \in 0 .. Capacity - 1 : Slot(i).tag = tag }
    IN  IF hits = {} THEN NotFound
        ELSE CHOOSE i \in hits : \A j \in hits : i <= j

\* a variant of FindTextureSlot whose scan starts at index 1
FindTextureSlotFromOne(tag) == ScanTextureSlot(tag, 1)

FindTextureSlot(tag) == ScanTextureSlot(tag, 0)

CreateGLTexture(tag, image) ==
    /\ pc = "running"
    /\ stbiFlip' = TRUE
    /\ UNCHANGED <<m_pShaderManager, matVars, glActiveTexture, meshes>>
    /\ IF ~ImageLoaded(image)
       THEN \* "Could not load image"
            /\ lastCall' = [op |-> "CreateGLTexture", tag |-> tag,
                            image |-> image, ret |-> FALSE]
            /\ UNCHANGED <<texVars, glNames, glBound2D, heapImages, loaded, pc>>
       ELSE IF ~ChannelsSupported(image)
       THEN \* the texture name is generated and bound, the image is not freed
            /\ glNames' = glNames + 1
            /\ glBound2D' = [glBound2D EXCEPT ![glActiveTexture] = glNames + 1]
            /\ heapImages' = heapImages + 1
            /\ lastCall' = [op |-> "CreateGLTexture", tag |-> tag,
                            image |-> image, ret |-> FALSE]
            /\ UNCHANGED <<texVars, loaded, pc>>
       ELSE IF m_loadedTextures < Capacity
       THEN /\ glNames' = glNames + 1
            /\ glBound2D' = [glBound2D EXCEPT ![glActiveTexture] = 0]
            /\ m_textureIDs' =
                   RegisterTexture(m_textureIDs, m_loadedTextures, tag, glNames + 1)
            /\ m_loadedTextures' = m_loadedTextures + 1
            /\ loaded' = Append(loaded, <<tag, glNames + 1>>)
            /\ lastCall' = [op |-> "CreateGLTexture", tag |-> tag,
                            image |-> image, ret |-> TRUE]
            /\ UNCHANGED <<overrun, heapImages, pc>>
       ELSE \* m_textureIDs[16] is written: this is outside the array.  The
            \* write either lands in the storage after the array, or faults.
            /\ glNames' = glNames + 1
            /\ glBound2D' = [glBound2D EXCEPT ![glActiveTexture] = 0]
            /\ UNCHANGED <<m_textureIDs, heapImages>>
            /\ \/ /\ overrun' = [tag |-> tag, ID |-> glNames + 1]
                  /\ m_loadedTextures' = m_loadedTextures + 1
                  /\ loaded' = Append(loaded, <<tag, glNames + 1>>)
                  /\ lastCall' = [op |-> "CreateGLTexture", tag |-> tag,
                                  image |-> image, ret |-> TRUE]
                  /\ UNCHANGED pc
               \/ /\ pc' = "crashed"
                  /\ lastCall' = [op |-> "CreateGLTexture", tag |-> tag,
                                  image |-> image, ret |-> "none"]
                  /\ UNCHANGED <<overrun, m_loadedTextures, loaded>>

-----------------------------------------------------------------------------
(* The material registry *)

\* the nine records DefineObjectMaterials pushes, in its order
Catalog ==
    << [tag |-> "metal", diffuseColor |-> <<400, 400, 400>>,
        specularColor |-> <<700, 700, 600>>, shininess |-> 52000],
       [tag |-> "wood", diffuseColor |-> <<200, 200, 300>>,
        specularColor |-> <<0, 0, 0>>, shininess |-> 100],
       [tag |-> "glass", diffuseColor |-> <<200, 200, 200>>,
        specularColor |-> <<1000, 1000, 1000>>, shininess |-> 95000],
       [tag |-> "plate", diffuseColor |-> <<400, 400, 400>>,
        specularColor |-> <<200, 200, 200>>, shininess |-> 30000],
       [tag |-> "cheese", diffuseColor |-> <<600, 500, 300>>,
        specularColor |-> <<0, 0, 0>>, shininess |-> 100],
       [tag |-> "bread", diffuseColor |-> <<700, 600, 500>>,
        specularColor |-> <<20, 20, 20>>, shininess |-> 1],
       [tag |-> "darkbread", diffuseColor |-> <<500, 400, 300>>,
        specularColor |-> <<10, 10, 10>>, shininess |-> 1],
       [tag |-> "shiplap", diffuseColor |-> <<800, 800, 900>>,
        specularColor |-> <<0, 0, 0>>, shininess |-> 2000],
       [tag |-> "grape", diffuseColor |-> <<400, 200, 400>>,
        specularColor |-> <<100, 50, 100>>, shininess |-> 550] >>

\* an OBJECT_MATERIAL that was declared and never assigned: its tag is the
\* empty string, its other fields hold whatever the storage held
IndeterminateMaterials ==
    { [tag |-> "", diffuseColor |-> <<v, v, v>>,
       specularColor |-> <<v, v, v>>, shininess |-> v] : v \in {0, 999} }

\* a variant of CopyMaterial that crosses the two colours
CopyMaterialCrossed(material, record) ==
    [material EXCEPT !.diffuseColor = record.specularColor,
                     !.specularColor = record.diffuseColor,
                     !.shininess = record.shininess]

\* material.diffuseColor = ...; material.specularColor = ...;
\* material.shininess = ...; the tag is not copied
CopyMaterial(material, record) ==
    [material EXCEPT !.diffuseColor = record.diffuseColor,
                     !.specularColor = record.specularColor,
                     !.shininess = record.shininess]

\* the while loop of FindMaterial from index on: the material it leaves
RECURSIVE ScanMaterial(_, _, _)
ScanMaterial(tag, material, index) ==
    IF index < Len(m_objectMaterials)
    THEN IF m_objectMaterials[index + 1].tag = tag
         THEN CopyMaterial(material, m_objectMaterials[index + 1])
         ELSE ScanMaterial(tag, material, index + 1)
    ELSE material

\* a variant of FindMaterial without the test of an empty registry
FindMaterialNoEmptyTest(tag, material) ==
    [ret |-> TRUE, material |-> ScanMaterial(tag, material, 0)]

\* FindMaterial(tag, material): what it returns and what it leaves in the
\* material passed by reference
FindMaterial(tag, material) ==
    IF Len(m_objectMaterials) = 0
    THEN [ret |-> FALSE, material |-> material]
    ELSE [ret |-> TRUE, material |-> ScanMaterial(tag, material, 0)]

\* a call of FindMaterial on the caller's material
FindMaterialCall(tag, material) ==
    /\ pc = "running"
    /\ outMaterial' = FindMaterial(tag, material).material
    /\ lastCall' = [op |-> "FindMaterial", tag |-> tag, material |-> material,
                    ret |-> FindMaterial(tag, material).ret]
    /\ UNCHANGED <<m_pShaderManager, texVars, glVars, m_objectMaterials,
                   shader, loaded, pc, meshes>>

\* a variant of PushMaterial that also resets the UV scale
PushMaterialResetUV(uniforms, material) ==
    [uniforms EXCEPT !.diffuseColor = material.diffuseColor,
                     !.specularColor = material.specularColor,
                     !.shininess = material.shininess,
                     !.UVscale = <<1000, 1000>>]

\* the three setVec3Value / setFloatValue calls of SetShaderMaterial
PushMaterial(uniforms, material) ==
    [uniforms EXCEPT !.diffuseColor = material.diffuseColor,
                     !.specularColor = material.specularColor,
                     !.shininess = material.shininess]

SetShaderMaterial(materialTag) ==
    /\ pc = "running"
    /\ lastCall' = [op |-> "SetShaderMaterial", tag |-> materialTag]
    /\ UNCHANGED <<m_pShaderManager, texVars, glVars, m_objectMaterials,
                   outMaterial, loaded, meshes>>
    /\ IF Len(m_objectMaterials) > 0
       THEN \* OBJECT_MATERIAL material; is not initialized
            \E material \in IndeterminateMaterials :
                LET found == FindMaterial(materialTag, material)
                IN  IF found.ret = TRUE
                    THEN IF m_pShaderManager # "null"
                         THEN /\ shader' = PushMaterial(shader, found.material)
                              /\ UNCHANGED pc
                         ELSE \* m_pShaderManager is dereferenced unchecked
                              /\ pc' = "crashed"
                              /\ UNCHANGED shader
                    ELSE UNCHANGED <<shader, pc>>
       ELSE UNCHANGED <<shader, pc>>

DefineObjectMaterials ==
    /\ pc = "running"
    /\ m_objectMaterials' = m_objectMaterials \o Catalog
    /\ lastCall' = [op |-> "DefineObjectMaterials"]
    /\ UNCHANGED <<m_pShaderManager, texVars, glVars, shader, outMaterial,
                   loaded, pc, meshes>>

-----------------------------------------------------------------------------
(* The inputs of the model *)

UsedTags == { Slot(i).tag : i \in 0 .. m_loadedTextures - 1 }

\* the entries whose tag is the placeholder tag or the tag of an earlier entry
Repeats ==
    Cardinality({ i \in 0 .. m_loadedTextures - 1 :
                    \/ Slot(i).tag = PlaceholderTag
                    \/ \E j \in 0 .. i - 1 : Slot(j).tag = Slot(i).tag })

\* the first tag of TagOrder that no entry carries
FreshTag ==
    TagOrder[CHOOSE i \in 1 .. Len(TagOrder) :
                /\ TagOrder[i] \notin UsedTags
                /\ \A j \in 1 .. i - 1 : TagOrder[j] \in UsedTags]

Anomalies == Repeats + heapImages

\* the tags a load out of the ordinary repeats: the placeholder tag, the tag
\* registered first and the tag registered last
RepeatTags ==
    { PlaceholderTag } \cup
        (IF m_loadedTextures > 0
         THEN { Slot(0).tag, Slot(m_loadedTextures - 1).tag }
         ELSE {})

LoadTags ==
    { FreshTag } \cup (IF Anomalies < MaxAnomalies THEN RepeatTags ELSE {})

\* the <<tag, image>> pairs a load is tried with; no load is tried once the
\* storage after the array has been written
LoadInputs ==
    IF m_loadedTextures > Capacity
    THEN {}
    ELSE { in \in LoadTags \X ImageResults :
             ~(ImageLoaded(in[2]) /\ ChannelsSupported(in[2]))
                 => Anomalies < MaxAnomalies }

-----------------------------------------------------------------------------
(* Specifications *)

ZeroVec == <<0, 0, 0>>

\* the texture units: GL_TEXTURE0 + i for i up to the largest count the
\* model reaches
TextureUnits == 0 .. Capacity

\* the value of every uniform of a linked program before it is set
DefaultUniforms ==
    [model |-> << <<0, 0, 0, 0>>, <<0, 0, 0, 0>>, <<0, 0, 0, 0>>, <<0, 0, 0, 0>> >>,
     objectColor |-> <<0, 0, 0, 0>>,
     objectTexture |-> 0,
     bUseTexture |-> 0,
     bUseLighting |-> 0,
     UVscale |-> <<0, 0>>,
     lights |-> << >>,
     diffuseColor |-> ZeroVec, specularColor |-> ZeroVec, shininess |-> 0]

\* SceneManager::SceneManager(pShaderManager)
Construct(pShaderManager) ==
    /\ m_pShaderManager = pShaderManager
    /\ m_textureIDs = [i \in 0 .. Capacity - 1 |-> EmptySlot]
    /\ m_loadedTextures = 0
    /\ overrun = "unwritten"
    /\ m_objectMaterials = << >>
    /\ glNames = 0
    /\ glBound2D = [unit \in TextureUnits |-> 0]
    /\ glActiveTexture = 0
    /\ heapImages = 0
    /\ stbiFlip = FALSE
    /\ shader = DefaultUniforms
    /\ outMaterial = [tag |-> "", diffuseColor |-> ZeroVec,
                      specularColor |-> ZeroVec, shininess |-> 0]
    /\ loaded = << >>
    /\ lastCall = [op |-> "SceneManager"]
    /\ pc = "running"
    /\ meshes = {}
    /\ scene = [fn |-> "idle", at |-> 0, frames |-> "none", prepared |-> FALSE]
    /\ sinceDraw = [transforms |-> 0, colors |-> 0, textures |-> 0, draws |-> 0,
                    lastDraw |-> [op |-> "none", args |-> << >>]]

NextTextures ==
    /\ \E in \in LoadInputs : CreateGLTexture(in[1], in[2])
    /\ UNCHANGED callerVars

SpecTextures == Construct("valid") /\ [][NextTextures]_vars

\* the tags of the catalog and one tag that no record carries
MaterialTagInputs ==
    { Catalog[i].tag : i \in 1 .. Len(Catalog) } \cup { "nonexistent" }

InitMaterials == \E p \in {"valid", "null"} : Construct(p)

NextMaterials ==
    \/ /\ Len(m_objectMaterials) < MaxDefines * Len(Catalog)
       /\ DefineObjectMaterials
       /\ UNCHANGED callerVars
    \/ /\ \E tag \in MaterialTagInputs, material \in IndeterminateMaterials :
              FindMaterialCall(tag, material)
       /\ UNCHANGED callerVars
    \/ /\ \E tag \in MaterialTagInputs : SetShaderMaterial(tag)
       /\ UNCHANGED callerVars

SpecMaterials == InitMaterials /\ [][NextMaterials]_vars

-----------------------------------------------------------------------------
(* The texture registry: lookups *)

LoadedTags == { loaded[k][1] : k \in 1 .. Len(loaded) }

DistinctLoads ==
    \A i, j \in 1 .. Len(loaded) : i # j => loaded[i][1] # loaded[j][1]

\* the first load that registered tag
FirstLoad(tag) ==
    CHOOSE k \in 1 .. Len(loaded) :
        /\ loaded[k][1] = tag
        /\ \A j \in 1 .. k - 1 : loaded[j][1] # tag

\* C1: after N <= 16 loads that returned true, with pairwise distinct tags,
\* FindTextureID of the k-th load's tag is the texture name that load stored
\* and FindTextureSlot of it is k - 1.
C1_DistinctTagsLookup ==
    (pc = "running" /\ Len(loaded) <= Capacity /\ DistinctLoads) =>
        \A k \in 1 .. Len(loaded) :
            /\ FindTextureID(loaded[k][1]) = loaded[k][2]
            /\ FindTextureSlot(loaded[k][1]) = k - 1

\* 16 loads with distinct tags, one load of an unsupported image among them
C1_Witness ==
    /\ pc = "running"
    /\ Len(loaded) = Capacity
    /\ DistinctLoads
    /\ heapImages = 1
    /\ FindTextureSlot(loaded[Capacity][1]) = Capacity - 1
    /\ FindTextureID(loaded[Capacity][1]) = Capacity + 1

\* C2: when a tag was loaded more than once, FindTextureID and
\* FindTextureSlot answer with the texture name and the index of the
\* earliest load of that tag.
C2_FirstMatchWins ==
    (pc = "running" /\ Len(loaded) <= Capacity) =>
        \A tag \in LoadedTags :
            /\ FindTextureID(tag) = loaded[FirstLoad(tag)][2]
            /\ FindTextureSlot(tag) = FirstLoad(tag) - 1

\* a tag loaded twice, with other loads in between
C2_Witness ==
    /\ pc = "running"
    /\ Len(loaded) <= Capacity
    /\ \E i, j \in 1 .. Len(loaded) :
          /\ i + 1 < j
          /\ loaded[i][1] = loaded[j][1]
          /\ FindTextureID(loaded[j][1]) = loaded[i][2]
          /\ FindTextureSlot(loaded[j][1]) = i - 1

\* C3: a tag that no load registered is answered with -1 by FindTextureID
\* and by FindTextureSlot, in every state, the placeholder tag of the unused
\* slots included.
C3_UnknownTagNotFound ==
    \A tag \in AllTags \ LoadedTags :
        /\ FindTextureID(tag) = NotFound
        /\ FindTextureSlot(tag) = NotFound

\* three entries are loaded, slot 3 still holds the placeholder tag, and the
\* placeholder tag is not found
C3_Witness ==
    /\ m_loadedTextures = 3
    /\ m_textureIDs[3].tag = PlaceholderTag
    /\ PlaceholderTag \notin LoadedTags
    /\ FindTextureSlot(PlaceholderTag) = NotFound
    /\ FindTextureID(PlaceholderTag) = NotFound

-----------------------------------------------------------------------------
(* The texture registry: CreateGLTexture *)

CreateCalled == lastCall.op = "CreateGLTexture"

\* C4: a CreateGLTexture call on a registry of 16 entries returns false,
\* leaves the entries and the count as they were and writes nothing outside
\* the 16 slots, so that the count never exceeds 16.
C4_FullRegistryRejects ==
    [][ (CreateCalled' /\ m_loadedTextures = Capacity) =>
            /\ lastCall'.ret = FALSE
            /\ UNCHANGED <<m_textureIDs, m_loadedTextures, overrun>>
            /\ m_loadedTextures' <= Capacity ]_vars

\* C5: a CreateGLTexture call on an image of 1 or 2 channels returns false
\* and leaves the count and every entry as they were.
C5_BadChannelsRejected ==
    [][ (CreateCalled' /\ lastCall'.image \in {1, 2}) =>
            /\ lastCall'.ret = FALSE
            /\ UNCHANGED <<m_textureIDs, m_loadedTextures, overrun>> ]_vars

\* a load of a 2-channel image was rejected on a registry that holds entries
C5_Witness ==
    /\ CreateCalled
    /\ lastCall.image = 2
    /\ lastCall.ret = FALSE
    /\ m_loadedTextures >= 1
    /\ heapImages = 1

\* C6: a CreateGLTexture call on an image that cannot be decoded returns
\* false, generates no texture name and leaves the registry as it was; a
\* tag that was not registered is still answered with -1 afterwards.
C6_UndecodableRejected ==
    [][ (CreateCalled' /\ lastCall'.image = NoImage) =>
            /\ lastCall'.ret = FALSE
            /\ glNames' = glNames
            /\ UNCHANGED <<m_textureIDs, m_loadedTextures, overrun>>
            /\ \A tag \in AllTags \ LoadedTags :
                  lastCall'.tag = tag =>
                      /\ FindTextureID(tag)' = NotFound
                      /\ FindTextureSlot(tag)' = NotFound ]_vars

\* a load of an undecodable image was rejected on a registry that holds
\* entries, and its tag is not found
C6_Witness ==
    /\ CreateCalled
    /\ lastCall.image = NoImage
    /\ lastCall.ret = FALSE
    /\ m_loadedTextures >= 1
    /\ lastCall.tag \notin LoadedTags
    /\ FindTextureID(lastCall.tag) = NotFound
    /\ FindTextureSlot(lastCall.tag) = NotFound

-----------------------------------------------------------------------------
(* The material registry: FindMaterial and SetShaderMaterial *)

MaterialTags == { m_objectMaterials[i].tag : i \in 1 .. Len(m_objectMaterials) }

\* the first record, in insertion order, that carries tag
FirstMaterial(tag) ==
    m_objectMaterials[CHOOSE i \in 1 .. Len(m_objectMaterials) :
                          /\ m_objectMaterials[i].tag = tag
                          /\ \A j \in 1 .. i - 1 : m_objectMaterials[j].tag # tag]

FindMaterialCalled == lastCall.op = "FindMaterial"

\* C7: FindMaterial returns false whenever no record carries the tag, on an
\* empty registry and on a registry that holds only other tags.
C7_UnknownMaterialNotFound ==
    (FindMaterialCalled /\ lastCall.tag \notin MaterialTags) =>
        lastCall.ret = FALSE

\* C8: for a tag that a record carries, FindMaterial returns true and leaves
\* in the material the diffuse colour, specular colour and shininess of the
\* first record with that tag.
C8_FindMaterialFirstRecord ==
    (FindMaterialCalled /\ lastCall.tag \in MaterialTags) =>
        /\ lastCall.ret = TRUE
        /\ outMaterial.diffuseColor = FirstMaterial(lastCall.tag).diffuseColor
        /\ outMaterial.specularColor = FirstMaterial(lastCall.tag).specularColor
        /\ outMaterial.shininess = FirstMaterial(lastCall.tag).shininess

\* wood was looked up in a registry that starts metal, wood, glass and holds
\* the catalog twice
C8_Witness ==
    /\ FindMaterialCalled
    /\ lastCall.tag = "wood"
    /\ Len(m_objectMaterials) = 2 * Len(Catalog)
    /\ m_objectMaterials[1].tag = "metal"
    /\ m_objectMaterials[3].tag = "glass"
    /\ lastCall.ret = TRUE
    /\ lastCall.material.shininess = 999
    /\ outMaterial.diffuseColor = <<200, 200, 300>>
    /\ outMaterial.specularColor = <<0, 0, 0>>
    /\ outMaterial.shininess = 100

\* C9: on an empty registry FindMaterial returns false and leaves the
\* material it was passed as it was.
C9_EmptyRegistryUntouched ==
    (FindMaterialCalled /\ Len(m_objectMaterials) = 0) =>
        /\ lastCall.ret = FALSE
        /\ outMaterial = lastCall.material

\* FindMaterial was called on the empty registry with a material whose
\* fields were not zero
C9_Witness ==
    /\ FindMaterialCalled
    /\ Len(m_objectMaterials) = 0
    /\ lastCall.tag = "wood"
    /\ lastCall.ret = FALSE
    /\ outMaterial.shininess = 999

\* C10: SetShaderMaterial with a tag that no record of a non-empty registry
\* carries leaves the three material uniforms as they were.
C10_UnknownMaterialNoPush ==
    [][ ( /\ lastCall'.op = "SetShaderMaterial"
          /\ Len(m_objectMaterials) > 0
          /\ lastCall'.tag \notin MaterialTags ) =>
            UNCHANGED shader ]_vars

-----------------------------------------------------------------------------
(* The shader state dispatcher *)

\* 1.0f in thousandths
One == 1000

\* pi in thousandths, as glm::radians uses it
Pi == 3142

\* glm::radians: degrees to radians (in thousandths of a radian)
Radians(degrees) == (degrees * Pi) \div 180

\* <<angle, cosine, sine>> of the angles the model uses, in thousandths
TrigTable ==
    { <<0, 1000, 0>>, <<1571, 0, 1000>>, <<3142, 0 - 1000, 0>>,
      <<0 - 1571, 0, 0 - 1000>>, <<4713, 0, 0 - 1000>>,
      <<349, 940, 342>>, <<1221, 343, 939>>, <<0 - 1222, 342, 0 - 940>> }

Cos(angle) == (CHOOSE t \in TrigTable : t[1] = angle)[2]
Sin(angle) == (CHOOSE t \in TrigTable : t[1] = angle)[3]

\* the product of two 4x4 matrices, rows first
MatEntry(A, B, i, j) ==
    (A[i][1] * B[1][j] + A[i][2] * B[2][j]
       + A[i][3] * B[3][j] + A[i][4] * B[4][j]) \div One

MatRow(A, B, i) ==
    <<MatEntry(A, B, i, 1), MatEntry(A, B, i, 2), MatEntry(A, B, i, 3),
      MatEntry(A, B, i, 4)>>

MatMul(A, B) == <<MatRow(A, B, 1), MatRow(A, B, 2), MatRow(A, B, 3), MatRow(A, B, 4)>>

\* glm::scale(v)
Scale(v) ==
    << <<v[1], 0, 0, 0>>, <<0, v[2], 0, 0>>, <<0, 0, v[3], 0>>, <<0, 0, 0, One>> >>

\* glm::translate(v)
Translate(v) ==
    << <<One, 0, 0, v[1]>>, <<0, One, 0, v[2]>>, <<0, 0, One, v[3]>>,
       <<0, 0, 0, One>> >>

\* glm::rotate(angle, axis) for the three axes SetTransformations passes
Rotate(angle, axis) ==
    LET c == Cos(angle)
        s == Sin(angle)
    IN  CASE axis = <<One, 0, 0>> ->
               << <<One, 0, 0, 0>>, <<0, c, 0 - s, 0>>, <<0, s, c, 0>>,
                  <<0, 0, 0, One>> >>
          [] axis = <<0, One, 0>> ->
               << <<c, 0, s, 0>>, <<0, One, 0, 0>>, <<0 - s, 0, c, 0>>,
                  <<0, 0, 0, One>> >>
          [] axis = <<0, 0, One>> ->
               << <<c, 0 - s, 0, 0>>, <<s, c, 0, 0>>, <<0, 0, One, 0>>,
                  <<0, 0, 0, One>> >>

\* a variant of ModelMatrix that multiplies the rotations as X * Y * Z
ModelMatrixXYZ(scaleXYZ, XrotationDegrees, YrotationDegrees, ZrotationDegrees, positionXYZ) ==
    LET scale == Scale(scaleXYZ)
        rotationX == Rotate(Radians(XrotationDegrees), <<One, 0, 0>>)
        rotationY == Rotate(Radians(YrotationDegrees), <<0, One, 0>>)
        rotationZ == Rotate(Radians(ZrotationDegrees), <<0, 0, One>>)
        translation == Translate(positionXYZ)
    IN  MatMul(MatMul(MatMul(MatMul(translation, rotationX), rotationY),
                      rotationZ), scale)

\* modelView = translation * rotationZ * rotationY * rotationX * scale
ModelMatrix(scaleXYZ, XrotationDegrees, YrotationDegrees, ZrotationDegrees, positionXYZ) ==
    LET scale == Scale(scaleXYZ)
        rotationX == Rotate(Radians(XrotationDegrees), <<One, 0, 0>>)
        rotationY == Rotate(Radians(YrotationDegrees), <<0, One, 0>>)
        rotationZ == Rotate(Radians(ZrotationDegrees), <<0, 0, One>>)
        translation == Translate(positionXYZ)
    IN  MatMul(MatMul(MatMul(MatMul(translation, rotationZ), rotationY),
                      rotationX), scale)

SetTransformations(scaleXYZ, XrotationDegrees, YrotationDegrees, ZrotationDegrees, positionXYZ) ==
    /\ pc = "running"
    /\ lastCall' = [op |-> "SetTransformations", scaleXYZ |-> scaleXYZ,
                    XrotationDegrees |-> XrotationDegrees,
                    YrotationDegrees |-> YrotationDegrees,
                    ZrotationDegrees |-> ZrotationDegrees,
                    positionXYZ |-> positionXYZ]
    /\ IF m_pShaderManager # "null"
       THEN shader' = [shader EXCEPT !.model =
                          ModelMatrix(scaleXYZ, XrotationDegrees,
                                      YrotationDegrees, ZrotationDegrees,
                                      positionXYZ)]
       ELSE UNCHANGED shader
    /\ UNCHANGED <<m_pShaderManager, texVars, glVars, m_objectMaterials,
                   outMaterial, loaded, pc, meshes>>

\* setIntValue(name, bool): the bool is converted to an int
BoolToInt(b) == IF b THEN 1 ELSE 0

\* a variant of UseTextureForColor that leaves texturing on
UseTextureForColorOn == BoolToInt(TRUE)

\* the value SetShaderColor pushes to bUseTexture
UseTextureForColor == BoolToInt(FALSE)

\* a variant of UseTextureForTexture that leaves texturing off
UseTextureForTextureOff == BoolToInt(FALSE)

\* the value SetShaderTexture pushes to bUseTexture
UseTextureForTexture == BoolToInt(TRUE)

SetShaderColor(redColorValue, greenColorValue, blueColorValue, alphaValue) ==
    /\ pc = "running"
    /\ lastCall' = [op |-> "SetShaderColor",
                    color |-> <<redColorValue, greenColorValue,
                                blueColorValue, alphaValue>>]
    /\ IF m_pShaderManager # "null"
       THEN shader' = [shader EXCEPT
                          !.bUseTexture = UseTextureForColor,
                          !.objectColor = <<redColorValue, greenColorValue,
                                            blueColorValue, alphaValue>>]
       ELSE UNCHANGED shader
    /\ UNCHANGED <<m_pShaderManager, texVars, glVars, m_objectMaterials,
                   outMaterial, loaded, pc, meshes>>

\* a variant of TextureSlotOf that pushes the texture name, not the slot
TextureSlotOfByID(textureTag) == FindTextureID(textureTag)

\* a variant of TextureSlotOf that pushes slot 0 when the tag is not found
TextureSlotOfOrZero(textureTag) ==
    IF FindTextureSlot(textureTag) = NotFound THEN 0
    ELSE FindTextureSlot(textureTag)

\* textureID = FindTextureSlot(textureTag): the value pushed to the sampler
TextureSlotOf(textureTag) == FindTextureSlot(textureTag)

SetShaderTexture(textureTag) ==
    /\ pc = "running"
    /\ lastCall' = [op |-> "SetShaderTexture", tag |-> textureTag]
    /\ IF m_pShaderManager # "null"
       THEN shader' = [shader EXCEPT
                          !.bUseTexture = UseTextureForTexture,
                          !.objectTexture = TextureSlotOf(textureTag)]
       ELSE UNCHANGED shader
    /\ UNCHANGED <<m_pShaderManager, texVars, glVars, m_objectMaterials,
                   outMaterial, loaded, pc, meshes>>

SetTextureUVScale(u, v) ==
    /\ pc = "running"
    /\ lastCall' = [op |-> "SetTextureUVScale", u |-> u, v |-> v]
    /\ IF m_pShaderManager # "null"
       THEN shader' = [shader EXCEPT !.UVscale = <<u, v>>]
       ELSE UNCHANGED shader
    /\ UNCHANGED <<m_pShaderManager, texVars, glVars, m_objectMaterials,
                   outMaterial, loaded, pc, meshes>>

-----------------------------------------------------------------------------
(* SetTransformations on its own *)

ScaleInputs == { <<1000, 1000, 1000>>, <<2000, 1000, 3000>> }
DegreeInputs == { 0, 90, 180, 0 - 90 }
PositionInputs == { <<0, 0, 0>>, <<1000, 2000, 3000>> }

NextTransform ==
    /\ \E scaleXYZ \in ScaleInputs, positionXYZ \in PositionInputs,
          X \in DegreeInputs, Y \in DegreeInputs, Z \in DegreeInputs :
           SetTransformations(scaleXYZ, X, Y, Z, positionXYZ)
    /\ UNCHANGED callerVars

SpecTransform == Construct("valid") /\ [][NextTransform]_vars

\* a vertex scaled along the three axes
ScaleVertex(s, v) ==
    <<(s[1] * v[1]) \div One, (s[2] * v[2]) \div One, (s[3] * v[3]) \div One>>

\* a vertex turned about the X, the Y and the Z axis by a right angle
\* (counter-clockwise seen from the positive end of the axis)
TurnX(v) == <<v[1], 0 - v[3], v[2]>>
TurnY(v) == <<v[3], v[2], 0 - v[1]>>
TurnZ(v) == <<0 - v[2], v[1], v[3]>>

QuarterTurns(degrees) == ((degrees + 360) % 360) \div 90

RotateVertexX(degrees, v) ==
    CASE QuarterTurns(degrees) = 0 -> v
      [] QuarterTurns(degrees) = 1 -> TurnX(v)
      [] QuarterTurns(degrees) = 2 -> TurnX(TurnX(v))
      [] QuarterTurns(degrees) = 3 -> TurnX(TurnX(TurnX(v)))

RotateVertexY(degrees, v) ==
    CASE QuarterTurns(degrees) = 0 -> v
      [] QuarterTurns(degrees) = 1 -> TurnY(v)
      [] QuarterTurns(degrees) = 2 -> TurnY(TurnY(v))
      [] QuarterTurns(degrees) = 3 -> TurnY(TurnY(TurnY(v)))

RotateVertexZ(degrees, v) ==
    CASE QuarterTurns(degrees) = 0 -> v
      [] QuarterTurns(degrees) = 1 -> TurnZ(v)
      [] QuarterTurns(degrees) = 2 -> TurnZ(TurnZ(v))
      [] QuarterTurns(degrees) = 3 -> TurnZ(TurnZ(TurnZ(v)))

TranslateVertex(p, v) == <<v[1] + p[1], v[2] + p[2], v[3] + p[3]>>

\* the matrix applied to the point v
ApplyRow(M, v, i) ==
    (M[i][1] * v[1] + M[i][2] * v[2] + M[i][3] * v[3] + M[i][4] * One) \div One

ApplyMatrix(M, v) == <<ApplyRow(M, v, 1), ApplyRow(M, v, 2), ApplyRow(M, v, 3)>>

TestVertices ==
    { <<1000, 0, 0>>, <<0, 1000, 0>>, <<0, 0, 1000>>, <<1000, 2000, 3000>> }

\* C17: the matrix SetTransformations pushes to the model uniform moves a
\* vertex as scaling it, then turning it about X, then about Y, then about
\* Z, then translating it does (Translation * RotationZ * RotationY *
\* RotationX * Scale), the angles being given in degrees.
C17_ModelMatrixOrder ==
    lastCall.op = "SetTransformations" =>
        \A v \in TestVertices :
            ApplyMatrix(shader.model, v) =
                TranslateVertex(lastCall.positionXYZ,
                    RotateVertexZ(lastCall.ZrotationDegrees,
                        RotateVertexY(lastCall.YrotationDegrees,
                            RotateVertexX(lastCall.XrotationDegrees,
                                ScaleVertex(lastCall.scaleXYZ, v)))))

\* a call with three different turns, an uneven scale and a translation: the
\* X axis ends up along Z, twice as long
C17_Witness ==
    /\ lastCall.op = "SetTransformations"
    /\ lastCall.scaleXYZ = <<2000, 1000, 3000>>
    /\ lastCall.XrotationDegrees = 90
    /\ lastCall.YrotationDegrees = 0 - 90
    /\ lastCall.ZrotationDegrees = 180
    /\ lastCall.positionXYZ = <<1000, 2000, 3000>>
    /\ ApplyMatrix(shader.model, <<1000, 0, 0>>) = <<1000, 2000, 5000>>


-----------------------------------------------------------------------------
(* SetShaderColor and SetShaderTexture over a small registry *)

\* loads in one run of the dispatcher specification
MaxDispatchLoads == 3

\* the tags the loads carry (a tag may be loaded more than once)
DispatchTags == { "floor", "brick", "metal" }

\* the tags SetShaderTexture is called with: the tags of the loads, a tag that
\* is never loaded and the placeholder tag of the unused slots
TextureTagInputs == DispatchTags \cup { "cartoon", PlaceholderTag }

\* stbi_load's results for the loads: an RGBA image, and an image with one
\* channel (such a load leaks a texture name) while none has leaked
DispatchImages == { 4 } \cup (IF heapImages < MaxAnomalies THEN { 1 } ELSE {})

ColorInputs == { <<0, 0, 0, 1000>>, <<961, 871, 702, 1000>> }

NextDispatch ==
    \/ /\ m_loadedTextures < MaxDispatchLoads
       /\ \E tag \in DispatchTags, image \in DispatchImages :
              CreateGLTexture(tag, image)
       /\ UNCHANGED callerVars
    \/ /\ \E c \in ColorInputs : SetShaderColor(c[1], c[2], c[3], c[4])
       /\ UNCHANGED callerVars
    \/ /\ \E tag \in TextureTagInputs : SetShaderTexture(tag)
       /\ UNCHANGED callerVars

SpecDispatch == Construct("valid") /\ [][NextDispatch]_vars

\* C11: a SetShaderColor call leaves bUseTexture false, a SetShaderTexture
\* call leaves it true, whatever it was before, and no other call changes it:
\* the flag is the one of the most recent of the two calls.
C11_LastCallSetsUseTexture ==
    [][ /\ lastCall'.op = "SetShaderColor" => shader'.bUseTexture = 0
        /\ lastCall'.op = "SetShaderTexture" => shader'.bUseTexture = 1
        /\ lastCall'.op \notin {"SetShaderColor", "SetShaderTexture"} =>
               shader'.bUseTexture = shader.bUseTexture ]_vars

\* SetShaderColor came last, after a SetShaderTexture call that had pushed
\* slot 2 to the sampler: the flag is off
C11_Witness ==
    /\ lastCall.op = "SetShaderColor"
    /\ shader.objectTexture = 2
    /\ shader.bUseTexture = 0

\* the slots whose entry carries tag
SlotsOf(tag) == { i \in 0 .. m_loadedTextures - 1 : Slot(i).tag = tag }

\* C12: SetShaderTexture with a registered tag pushes to objectTexture the
\* index of the first entry that carries the tag, which is the position of
\* the first load of the tag among the loads that registered an entry.
C12_SamplerIsFirstSlot ==
    (lastCall.op = "SetShaderTexture" /\ lastCall.tag \in LoadedTags) =>
        /\ shader.objectTexture \in SlotsOf(lastCall.tag)
        /\ \A i \in SlotsOf(lastCall.tag) : shader.objectTexture <= i
        /\ shader.objectTexture = FirstLoad(lastCall.tag) - 1

\* floor, brick and metal were loaded in this order and SetShaderTexture("metal")
\* pushed 2
C12_Witness ==
    /\ lastCall.op = "SetShaderTexture"
    /\ lastCall.tag = "metal"
    /\ Len(loaded) = 3
    /\ loaded[1][1] = "floor"
    /\ loaded[2][1] = "brick"
    /\ loaded[3][1] = "metal"
    /\ shader.objectTexture = 2

\* C13: SetShaderTexture with a tag that no entry carries ends normally, sets
\* bUseTexture to true, pushes -1 to objectTexture and leaves the registry as
\* it was.
C13_UnregisteredTagPushesSentinel ==
    [][ (lastCall'.op = "SetShaderTexture" /\ lastCall'.tag \notin LoadedTags) =>
            /\ pc' = "running"
            /\ shader'.bUseTexture = 1
            /\ shader'.objectTexture = NotFound
            /\ UNCHANGED texVars ]_vars

\* the placeholder tag was asked for on a registry of two entries, after a
\* colour call: the sampler holds -1 and texturing is on
C13_Witness ==
    /\ lastCall.op = "SetShaderTexture"
    /\ lastCall.tag = PlaceholderTag
    /\ m_loadedTextures = 2
    /\ shader.objectColor = <<961, 871, 702, 1000>>
    /\ shader.bUseTexture = 1
    /\ shader.objectTexture = NotFound

-----------------------------------------------------------------------------
(* BindGLTextures, DestroyGLTextures and the destructor *)

\* a variant of TextureUnitOf that binds every entry on GL_TEXTURE0
TextureUnitZero(i) == 0

\* a variant of TextureUnitOf that starts at GL_TEXTURE1
TextureUnitFromOne(i) == i + 1

\* GL_TEXTURE0 + i, as an offset from GL_TEXTURE0
TextureUnitOf(i) == i

\* the bindings after the loop of BindGLTextures has run over the entries
\* 0 .. count - 1: a unit holds the name bound to it last
BoundAfter(count) ==
    [unit \in TextureUnits |->
        LET bound == { i \in 0 .. count - 1 : TextureUnitOf(i) = unit }
        IN  IF bound = {} THEN glBound2D[unit]
            ELSE Slot(CHOOSE i \in bound : \A j \in bound : j <= i).ID]

BindGLTextures ==
    /\ pc = "running"
    /\ lastCall' = [op |-> "BindGLTextures"]
    /\ UNCHANGED <<m_pShaderManager, texVars, glNames, heapImages, stbiFlip,
                   matVars, loaded, meshes>>
    /\ IF m_loadedTextures = 0
       THEN UNCHANGED <<glActiveTexture, glBound2D, pc>>
       ELSE IF m_loadedTextures <= Capacity
       THEN /\ glActiveTexture' = TextureUnitOf(m_loadedTextures - 1)
            /\ glBound2D' = BoundAfter(m_loadedTextures)
            /\ UNCHANGED pc
       ELSE \* m_textureIDs[16] is read: this is outside the array.  The read
            \* either yields what the load stored there, or faults.
            \/ /\ glActiveTexture' = TextureUnitOf(m_loadedTextures - 1)
               /\ glBound2D' = BoundAfter(m_loadedTextures)
               /\ UNCHANGED pc
            \/ /\ glActiveTexture' = TextureUnitOf(Capacity - 1)
               /\ glBound2D' = BoundAfter(Capacity)
               /\ pc' = "crashed"

\* the texture names that were generated and not deleted: the program never
\* calls glDeleteTextures
LiveTextures == 1 .. glNames

\* glGenTextures(1, &m_textureIDs[i].ID) for i = 0 .. count - 1: entry i is
\* overwritten with the next unused texture name
GenTexturesOver(ids, count) ==
    [i \in 0 .. Capacity - 1 |->
        IF i < count THEN [ids[i] EXCEPT !.ID = glNames + i + 1] ELSE ids[i]]

\* the loop of DestroyGLTextures; op is the caller and endpc its state when it
\* returns
DestroyLoop(op, endpc) ==
    /\ lastCall' = [op |-> op]
    /\ UNCHANGED m_loadedTextures
    /\ IF m_loadedTextures <= Capacity
       THEN /\ m_textureIDs' = GenTexturesOver(m_textureIDs, m_loadedTextures)
            /\ glNames' = glNames + m_loadedTextures
            /\ pc' = endpc
            /\ UNCHANGED overrun
       ELSE \* &m_textureIDs[16].ID is outside the array: the write either
            \* lands in the storage after the array, or faults
            /\ m_textureIDs' = GenTexturesOver(m_textureIDs, Capacity)
            /\ \/ /\ glNames' = glNames + m_loadedTextures
                  /\ overrun' = [overrun EXCEPT !.ID = glNames + Capacity + 1]
                  /\ pc' = endpc
               \/ /\ glNames' = glNames + Capacity
                  /\ pc' = "crashed"
                  /\ UNCHANGED overrun

DestroyGLTextures ==
    /\ pc = "running"
    /\ DestroyLoop("DestroyGLTextures", "running")
    /\ UNCHANGED <<m_pShaderManager, glBound2D, glActiveTexture, heapImages,
                   stbiFlip, matVars, loaded, meshes>>

\* SceneManager::~SceneManager()
Destructor ==
    /\ pc = "running"
    /\ m_pShaderManager' = "null"
    /\ meshes' = {}
    /\ DestroyLoop("~SceneManager", "destroyed")
    /\ UNCHANGED <<glBound2D, glActiveTexture, heapImages, stbiFlip, matVars,
                   loaded>>

\* texture names generated in one run of the lifecycle specification
MaxGLNames == 7

\* the tags of the loads of the lifecycle specification
LifecycleTags == { "floor", "brick" }

NextLifecycle ==
    \/ /\ m_loadedTextures < MaxDispatchLoads
       /\ glNames < MaxGLNames
       /\ \E tag \in LifecycleTags, image \in DispatchImages :
              CreateGLTexture(tag, image)
       /\ UNCHANGED callerVars
    \/ /\ BindGLTextures
       /\ UNCHANGED callerVars
    \/ /\ glNames + m_loadedTextures <= MaxGLNames
       /\ DestroyGLTextures
       /\ UNCHANGED callerVars
    \/ /\ glNames + m_loadedTextures <= MaxGLNames
       /\ Destructor
       /\ UNCHANGED callerVars

SpecLifecycle == Construct("valid") /\ [][NextLifecycle]_vars

\* the texture names the entries hold
HeldTextures == { Slot(i).ID : i \in 0 .. m_loadedTextures - 1 }

\* C14: after DestroyGLTextures, called directly or by the destructor, no
\* texture name an entry held is live any more, no texture name was
\* generated, the count is zero and FindTextureID and FindTextureSlot answer
\* -1 for every tag.
C14_DestroyEmptiesRegistry ==
    [][ lastCall'.op \in {"DestroyGLTextures", "~SceneManager"} =>
            /\ HeldTextures \cap LiveTextures' = {}
            /\ glNames' = glNames
            /\ m_loadedTextures' = 0
            /\ \A tag \in AllTags :
                   /\ FindTextureID(tag)' = NotFound
                   /\ FindTextureSlot(tag)' = NotFound ]_vars

\* C15: DestroyGLTextures on a registry with no entry changes neither the
\* registry nor the texture names, and a DestroyGLTextures call that follows
\* a DestroyGLTextures call changes neither.
C15_DestroyIdempotent ==
    [][ /\ (lastCall'.op = "DestroyGLTextures" /\ m_loadedTextures = 0) =>
               UNCHANGED <<texVars, glVars>>
        /\ (lastCall.op = "DestroyGLTextures" /\ lastCall'.op = "DestroyGLTextures") =>
               UNCHANGED <<texVars, glNames>> ]_vars

\* C16: BindGLTextures leaves, for every i below the count, the texture name
\* of entry i bound on texture unit i, leaves the binding of every unit at or
\* above the count as it was, and leaves the registry as it was.
C16_BindBindsSlotToUnit ==
    [][ lastCall'.op = "BindGLTextures" =>
            /\ \A i \in 0 .. m_loadedTextures - 1 : glBound2D'[i] = Slot(i).ID
            /\ \A unit \in TextureUnits :
                   unit >= m_loadedTextures => glBound2D'[unit] = glBound2D[unit]
            /\ UNCHANGED texVars ]_vars

\* two entries whose texture names are not their index plus one (a failed
\* load took texture name 1) are bound on units 0 and 1; unit 2 is unbound as
\* before
C16_Witness ==
    /\ lastCall.op = "BindGLTextures"
    /\ m_loadedTextures = 2
    /\ glBound2D[0] = Slot(0).ID
    /\ glBound2D[1] = Slot(1).ID
    /\ Slot(0).ID > 1
    /\ glBound2D[2] = 0

-----------------------------------------------------------------------------
(* The mesh library and the lights *)

\* the one-time loads of m_basicMeshes
LoadOps ==
    { "LoadPlaneMesh", "LoadBoxMesh", "LoadCylinderMesh", "LoadTorusMesh",
      "LoadSphereMesh", "LoadConeMesh" }

\* the draws of m_basicMeshes
DrawOps ==
    { "DrawPlaneMesh", "DrawBoxMesh", "DrawCylinderMesh", "DrawTorusMesh",
      "DrawHalfTorusMesh", "DrawSphereMesh", "DrawHalfSphereMesh",
      "DrawConeMesh", "DrawExtraTorusMesh1", "DrawExtraTorusMesh2" }

\* m_basicMeshes->Load...Mesh()
LoadMesh(op) ==
    /\ pc = "running"
    /\ meshes' = meshes \cup {op}
    /\ lastCall' = [op |-> op, args |-> << >>]
    /\ UNCHANGED <<m_pShaderManager, texVars, glVars, matVars, loaded, pc>>

\* m_basicMeshes->Draw...Mesh(...): the mesh is drawn with the uniforms as
\* they are
DrawMesh(op, args) ==
    /\ pc = "running"
    /\ lastCall' = [op |-> op, args |-> args]
    /\ UNCHANGED <<m_pShaderManager, texVars, glVars, matVars, loaded, pc,
                   meshes>>

\* the uniforms SetupSceneLights pushes after bUseLighting, in its order
SceneLights ==
    << <<"directionalLight.direction", <<-50, -300, -100>>>>,
       <<"directionalLight.ambient", <<180, 180, 180>>>>,
       <<"directionalLight.diffuse", <<600, 600, 600>>>>,
       <<"directionalLight.specular", <<0, 0, 0>>>>,
       <<"directionalLight.bActive", BoolToInt(TRUE)>>,
       <<"pointLights[0].position", <<-15000, 17000, 5000>>>>,
       <<"pointLights[0].ambient", <<200, 200, 200>>>>,
       <<"pointLights[0].diffuse", <<700, 700, 700>>>>,
       <<"pointLights[0].specular", <<100, 100, 100>>>>,
       <<"pointLights[0].constant", 1000>>,
       <<"pointLights[0].linear", 90>>,
       <<"pointLights[0].quadratic", 32>>,
       <<"pointLights[0].bActive", BoolToInt(TRUE)>>,
       <<"pointLights[1].position", <<15000, 17000, 5000>>>>,
       <<"pointLights[1].ambient", <<50, 50, 50>>>>,
       <<"pointLights[1].diffuse", <<300, 300, 300>>>>,
       <<"pointLights[1].specular", <<100, 100, 100>>>>,
       <<"pointLights[1].constant", 1000>>,
       <<"pointLights[1].linear", 90>>,
       <<"pointLights[1].quadratic", 32>>,
       <<"pointLights[1].bActive", BoolToInt(TRUE)>>,
       <<"pointLights[2].position", <<-15000, 17000, 6000>>>>,
       <<"pointLights[2].ambient", <<50, 50, 50>>>>,
       <<"pointLights[2].diffuse", <<200, 200, 200>>>>,
       <<"pointLights[2].specular", <<800, 800, 800>>>>,
       <<"pointLights[2].constant", 1000>>,
       <<"pointLights[2].linear", 90>>,
       <<"pointLights[2].quadratic", 32>>,
       <<"pointLights[2].bActive", BoolToInt(TRUE)>>,
       <<"pointLights[3].position", <<15000, 17000, 6000>>>>,
       <<"pointLights[3].ambient", <<50, 50, 50>>>>,
       <<"pointLights[3].diffuse", <<200, 200, 200>>>>,
       <<"pointLights[3].specular", <<800, 800, 800>>>>,
       <<"pointLights[3].constant", 1000>>,
       <<"pointLights[3].linear", 90>>,
       <<"pointLights[3].quadratic", 32>>,
       <<"pointLights[3].bActive", BoolToInt(TRUE)>> >>

SetupSceneLights ==
    /\ pc = "running"
    /\ lastCall' = [op |-> "SetupSceneLights"]
    /\ IF m_pShaderManager = "null"
       THEN \* m_pShaderManager is dereferenced without a test
            /\ pc' = "crashed"
            /\ UNCHANGED shader
       ELSE /\ shader' = [shader EXCEPT !.bUseLighting = BoolToInt(TRUE),
                                        !.lights = SceneLights]
            /\ UNCHANGED pc
    /\ UNCHANGED <<m_pShaderManager, texVars, glVars, m_objectMaterials,
                   outMaterial, loaded, meshes>>

-----------------------------------------------------------------------------
(* The calls of PrepareScene and RenderScene *)

\* the calls in the body of SceneManager::LoadSceneTextures, in their order
LoadSceneTextures ==
    << [fn |-> "LoadSceneTextures", line |-> 578, op |-> "CreateGLTexture",
        args |-> <<"textures/dark_wood_floor.JPG", "floor">>],
       [fn |-> "LoadSceneTextures", line |-> 582, op |-> "CreateGLTexture",
        args |-> <<"textures/shiplap.JPG", "shiplap">>],
       [fn |-> "LoadSceneTextures", line |-> 586, op |-> "CreateGLTexture",
        args |-> <<"textures/bricks.JPG", "brick">>],
       [fn |-> "LoadSceneTextures", line |-> 590, op |-> "CreateGLTexture",
        args |-> <<"textures/Wood_mantle.JPG", "mantle">>],
       [fn |-> "LoadSceneTextures", line |-> 594, op |-> "CreateGLTexture",
        args |-> <<"textures/black_metal.JPG", "metal">>],
       [fn |-> "LoadSceneTextures", line |-> 598, op |-> "CreateGLTexture",
        args |-> <<"textures/black_metal2.JPG", "metal2">>],
       [fn |-> "LoadSceneTextures", line |-> 602, op |-> "CreateGLTexture",
        args |-> <<"textures/pine_bark.JPG", "bark">>],
       [fn |-> "LoadSceneTextures", line |-> 606, op |-> "CreateGLTexture",
        args |-> <<"textures/Tree_end.JPG", "tree_end">>],
       [fn |-> "LoadSceneTextures", line |-> 610, op |-> "CreateGLTexture",
        args |-> <<"textures/rusticwood.JPG", "rusticwood">>],
       [fn |-> "LoadSceneTextures", line |-> 614, op |-> "CreateGLTexture",
        args |-> <<"textures/Leaf.JPG", "leaf">>],
       [fn |-> "LoadSceneTextures", line |-> 618, op |-> "CreateGLTexture",
        args |-> <<"textures/BLUEY.JPG", "cartoon">>],
       [fn |-> "LoadSceneTextures", line |-> 622, op |-> "BindGLTextures",
        args |-> << >>] >>

\* the calls in the body of SceneManager::PrepareScene, in their order
PrepareScene ==
    LoadSceneTextures \o
    << [fn |-> "PrepareScene", line |-> 639, op |-> "DefineObjectMaterials",
        args |-> << >>],
       [fn |-> "PrepareScene", line |-> 641, op |-> "SetupSceneLights",
        args |-> << >>],
       [fn |-> "PrepareScene", line |-> 647, op |-> "LoadPlaneMesh",
        args |-> << >>],
       [fn |-> "PrepareScene", line |-> 648, op |-> "LoadBoxMesh",
        args |-> << >>],
       [fn |-> "PrepareScene", line |-> 649, op |-> "LoadCylinderMesh",
        args |-> << >>],
       [fn |-> "PrepareScene", line |-> 650, op |-> "LoadTorusMesh",
        args |-> << >>],
       [fn |-> "PrepareScene", line |-> 651, op |-> "LoadSphereMesh",
        args |-> << >>],
       [fn |-> "PrepareScene", line |-> 652, op |-> "LoadConeMesh",
        args |-> << >>],
       [fn |-> "PrepareScene", line |-> 653, op |-> "DrawExtraTorusMesh1",
        args |-> << >>],
       [fn |-> "PrepareScene", line |-> 654, op |-> "DrawExtraTorusMesh2",
        args |-> << >>] >>

\* a variant of RenderWall that sets the transformations twice before its draw
RenderWallTwoTransforms ==
    << [fn |-> "RenderWall", line |-> 1717, op |-> "SetTransformations",
        args |-> <<<<20000, 1000, 8000>>, 90, 0, 0, <<0, 8000, -10000>>>>],
       [fn |-> "RenderWall", line |-> 1717, op |-> "SetTransformations",
        args |-> <<<<20000, 1000, 8000>>, 90, 0, 0, <<0, 8000, -10000>>>>],
       [fn |-> "RenderWall", line |-> 1720, op |-> "SetShaderTexture",
        args |-> <<"shiplap">>],
       [fn |-> "RenderWall", line |-> 1724, op |-> "DrawPlaneMesh",
        args |-> << >>] >>

\* the calls in the body of SceneManager::RenderWall, in their order
RenderWall ==
    << [fn |-> "RenderWall", line |-> 1717, op |-> "SetTransformations",
        args |-> <<<<20000, 1000, 8000>>, 90, 0, 0, <<0, 8000, -10000>>>>],
       [fn |-> "RenderWall", line |-> 1720, op |-> "SetShaderTexture",
        args |-> <<"shiplap">>],
       [fn |-> "RenderWall", line |-> 1724, op |-> "DrawPlaneMesh",
        args |-> << >>] >>

\* the calls in the body of SceneManager::RenderFireBox, in their order
RenderFireBox ==
    << [fn |-> "RenderFireBox", line |-> 1242, op |-> "SetTransformations",
        args |-> <<<<3500, 6000, 3000>>, 90, 0, 0, <<0, 3000, -7500>>>>],
       [fn |-> "RenderFireBox", line |-> 1245, op |-> "SetShaderTexture",
        args |-> <<"brick">>],
       [fn |-> "RenderFireBox", line |-> 1247, op |-> "DrawPlaneMesh",
        args |-> << >>],
       [fn |-> "RenderFireBox", line |-> 1269, op |-> "SetTransformations",
        args |-> <<<<3000, 0, 3000>>, 90, 70, 0, <<-2400, 3000, -6840>>>>],
       [fn |-> "RenderFireBox", line |-> 1272, op |-> "SetShaderTexture",
        args |-> <<"brick">>],
       [fn |-> "RenderFireBox", line |-> 1274, op |-> "DrawPlaneMesh",
        args |-> << >>],
       [fn |-> "RenderFireBox", line |-> 1296, op |-> "SetTransformations",
        args |-> <<<<3000, 0, 3000>>, 90, -70, 0, <<2400, 3000, -6840>>>>],
       [fn |-> "RenderFireBox", line |-> 1299, op |-> "SetShaderTexture",
        args |-> <<"brick">>],
       [fn |-> "RenderFireBox", line |-> 1301, op |-> "DrawPlaneMesh",
        args |-> << >>],
       [fn |-> "RenderFireBox", line |-> 1322, op |-> "SetTransformations",
        args |-> <<<<6500, 1000, 5000>>, 0, 0, 0, <<0, 500, -7000>>>>],
       [fn |-> "RenderFireBox", line |-> 1325, op |-> "SetShaderTexture",
        args |-> <<"metal">>],
       [fn |-> "RenderFireBox", line |-> 1326, op |-> "SetShaderMaterial",
        args |-> <<"metal">>],
       [fn |-> "RenderFireBox", line |-> 1328, op |-> "DrawBoxMesh",
        args |-> << >>],
       [fn |-> "RenderFireBox", line |-> 1349, op |-> "SetTransformations",
        args |-> <<<<6500, 1000, 5000>>, 0, 0, 0, <<0, 5500, -7000>>>>],
       [fn |-> "RenderFireBox", line |-> 1352, op |-> "SetShaderTexture",
        args |-> <<"metal">>],
       [fn |-> "RenderFireBox", line |-> 1353, op |-> "SetShaderMaterial",
        args |-> <<"metal">>],
       [fn |-> "RenderFireBox", line |-> 1355, op |-> "DrawBoxMesh",
        args |-> << >>],
       [fn |-> "RenderFireBox", line |-> 1379, op |-> "SetTransformations",
        args |-> <<<<7000, 1000, 450>>, 0, 0, 0, <<0, 500, -4300>>>>],
       [fn |-> "RenderFireBox", line |-> 1382, op |-> "SetShaderTexture",
        args |-> <<"metal2">>],
       [fn |-> "RenderFireBox", line |-> 1383, op |-> "SetShaderMaterial",
        args |-> <<"metal">>],
       [fn |-> "RenderFireBox", line |-> 1385, op |-> "DrawBoxMesh",
        args |-> << >>],
       [fn |-> "RenderFireBox", line |-> 1407, op |-> "SetTransformations",
        args |-> <<<<7000, 1000, 450>>, 0, 0, 0, <<0, 5500, -4300>>>>],
       [fn |-> "RenderFireBox", line |-> 1410, op |-> "SetShaderTexture",
        args |-> <<"metal2">>],
       [fn |-> "RenderFireBox", line |-> 1411, op |-> "SetShaderMaterial",
        args |-> <<"metal">>],
       [fn |-> "RenderFireBox", line |-> 1413, op |-> "DrawBoxMesh",
        args |-> << >>],
       [fn |-> "RenderFireBox", line |-> 1437, op |-> "SetTransformations",
        args |-> <<<<5000, 100, 450>>, 0, 0, 90, <<-3200, 3500, -4300>>>>],
       [fn |-> "RenderFireBox", line |-> 1440, op |-> "SetShaderTexture",
        args |-> <<"metal2">>],
       [fn |-> "RenderFireBox", line |-> 1441, op |-> "SetShaderMaterial",
        args |-> <<"metal">>],
       [fn |-> "RenderFireBox", line |-> 1443, op |-> "DrawBoxMesh",
        args |-> << >>],
       [fn |-> "RenderFireBox", line |-> 1465, op |-> "SetTransformations",
        args |-> <<<<5000, 100, 450>>, 0, 0, 90, <<3200, 3500, -4300>>>>],
       [fn |-> "RenderFireBox", line |-> 1468, op |-> "SetShaderTexture",
        args |-> <<"metal2">>],
       [fn |-> "RenderFireBox", line |-> 1469, op |-> "SetShaderMaterial",
        args |-> <<"metal">>],
       [fn |-> "RenderFireBox", line |-> 1471, op |-> "DrawBoxMesh",
        args |-> << >>],
       [fn |-> "RenderFireBox", line |-> 1493, op |-> "SetTransformations",
        args |-> <<<<800, 200, 200>>, 0, 90, 180, <<-1500, 1500, -6000>>>>],
       [fn |-> "RenderFireBox", line |-> 1496, op |-> "SetShaderTexture",
        args |-> <<"metal2">>],
       [fn |-> "RenderFireBox", line |-> 1497, op |-> "SetShaderMaterial",
        args |-> <<"metal">>],
       [fn |-> "RenderFireBox", line |-> 1499, op |-> "DrawHalfTorusMesh",
        args |-> << >>],
       [fn |-> "RenderFireBox", line |-> 1520, op |-> "SetTransformations",
        args |-> <<<<500, 200, 200>>, 0, 90, 0, <<-1500, 1000, -6000>>>>],
       [fn |-> "RenderFireBox", line |-> 1523, op |-> "SetShaderTexture",
        args |-> <<"metal2">>],
       [fn |-> "RenderFireBox", line |-> 1524, op |-> "SetShaderMaterial",
        args |-> <<"metal">>],
       [fn |-> "RenderFireBox", line |-> 1526, op |-> "DrawHalfTorusMesh",
        args |-> << >>],
       [fn |-> "RenderFireBox", line |-> 1548, op |-> "SetTransformations",
        args |-> <<<<800, 200, 200>>, 0, 90, 180, <<1500, 1500, -6000>>>>],
       [fn |-> "RenderFireBox", line |-> 1551, op |-> "SetShaderTexture",
        args |-> <<"metal2">>],
       [fn |-> "RenderFireBox", line |-> 1552, op |-> "SetShaderMaterial",
        args |-> <<"metal">>],
       [fn |-> "RenderFireBox", line |-> 1554, op |-> "DrawHalfTorusMesh",
        args |-> << >>],
       [fn |-> "RenderFireBox", line |-> 1575, op |-> "SetTransformations",
        args |-> <<<<500, 200, 200>>, 0, 90, 0, <<1500, 1000, -6000>>>>],
       [fn |-> "RenderFireBox", line |-> 1578, op |-> "SetShaderTexture",
        args |-> <<"metal2">>],
       [fn |-> "RenderFireBox", line |-> 1579, op |-> "SetShaderMaterial",
        args |-> <<"metal">>],
       [fn |-> "RenderFireBox", line |-> 1581, op |-> "DrawHalfTorusMesh",
        args |-> << >>],
       [fn |-> "RenderFireBox", line |-> 1607, op |-> "SetTransformations",
        args |-> <<<<300, 3500, 300>>, 0, 0, 90, <<1800, 1600, -5600>>>>],
       [fn |-> "RenderFireBox", line |-> 1610, op |-> "SetShaderTexture",
        args |-> <<"bark">>],
       [fn |-> "RenderFireBox", line |-> 1611, op |-> "SetShaderMaterial",
        args |-> <<"wood">>],
       [fn |-> "RenderFireBox", line |-> 1613, op |-> "DrawCylinderMesh",
        args |-> <<FALSE, FALSE>>],
       [fn |-> "RenderFireBox", line |-> 1615, op |-> "SetShaderTexture",
        args |-> <<"tree_end">>],
       [fn |-> "RenderFireBox", line |-> 1616, op |-> "SetShaderMaterial",
        args |-> <<"wood">>],
       [fn |-> "RenderFireBox", line |-> 1618, op |-> "DrawCylinderMesh",
        args |-> <<TRUE, TRUE, FALSE>>],
       [fn |-> "RenderFireBox", line |-> 1640, op |-> "SetTransformations",
        args |-> <<<<300, 3500, 300>>, 0, 0, 90, <<1800, 1600, -6300>>>>],
       [fn |-> "RenderFireBox", line |-> 1643, op |-> "SetShaderTexture",
        args |-> <<"bark">>],
       [fn |-> "RenderFireBox", line |-> 1644, op |-> "SetShaderMaterial",
        args |-> <<"wood">>],
       [fn |-> "RenderFireBox", line |-> 1646, op |-> "DrawCylinderMesh",
        args |-> <<FALSE, FALSE>>],
       [fn |-> "RenderFireBox", line |-> 1648, op |-> "SetShaderTexture",
        args |-> <<"tree_end">>],
       [fn |-> "RenderFireBox", line |-> 1649, op |-> "SetShaderMaterial",
        args |-> <<"wood">>],
       [fn |-> "RenderFireBox", line |-> 1651, op |-> "DrawCylinderMesh",
        args |-> <<TRUE, TRUE, FALSE>>],
       [fn |-> "RenderFireBox", line |-> 1672, op |-> "SetTransformations",
        args |-> <<<<300, 3500, 300>>, 20, 0, 90, <<1800, 2100, -6500>>>>],
       [fn |-> "RenderFireBox", line |-> 1675, op |-> "SetShaderTexture",
        args |-> <<"bark">>],
       [fn |-> "RenderFireBox", line |-> 1676, op |-> "SetShaderMaterial",
        args |-> <<"wood">>],
       [fn |-> "RenderFireBox", line |-> 1678, op |-> "DrawCylinderMesh",
        args |-> <<FALSE, FALSE>>],
       [fn |-> "RenderFireBox", line |-> 1680, op |-> "SetShaderTexture",
        args |-> <<"tree_end">>],
       [fn |-> "RenderFireBox", line |-> 1681, op |-> "SetShaderMaterial",
        args |-> <<"wood">>],
       [fn |-> "RenderFireBox", line |-> 1683, op |-> "DrawCylinderMesh",
        args |-> <<TRUE, TRUE, FALSE>>] >>

\* the calls in the body of SceneManager::RenderTrees, in their order
RenderTrees ==
    << [fn |-> "RenderTrees", line |-> 1755, op |-> "SetTransformations",
        args |-> <<<<250, 250, 250>>, 0, 0, 0, <<-4500, 8500, -2750>>>>],
       [fn |-> "RenderTrees", line |-> 1757, op |-> "SetShaderColor",
        args |-> <<961, 871, 702, 1000>>],
       [fn |-> "RenderTrees", line |-> 1760, op |-> "DrawCylinderMesh",
        args |-> << >>],
       [fn |-> "RenderTrees", line |-> 1781, op |-> "SetTransformations",
        args |-> <<<<190, 190, 190>>, 90, 0, 0, <<-4500, 8750, -2750>>>>],
       [fn |-> "RenderTrees", line |-> 1783, op |-> "SetShaderColor",
        args |-> <<961, 871, 702, 1000>>],
       [fn |-> "RenderTrees", line |-> 1786, op |-> "DrawTorusMesh",
        args |-> << >>],
       [fn |-> "RenderTrees", line |-> 1807, op |-> "SetTransformations",
        args |-> <<<<500, 2500, 500>>, 0, 0, 0, <<-4500, 8750, -2750>>>>],
       [fn |-> "RenderTrees", line |-> 1809, op |-> "SetShaderColor",
        args |-> <<100, 100, 100, 1000>>],
       [fn |-> "RenderTrees", line |-> 1810, op |-> "SetShaderTexture",
        args |-> <<"leaf">>],
       [fn |-> "RenderTrees", line |-> 1811, op |-> "SetTextureUVScale",
        args |-> <<4000, 4000>>],
       [fn |-> "RenderTrees", line |-> 1814, op |-> "DrawConeMesh",
        args |-> << >>],
       [fn |-> "RenderTrees", line |-> 1835, op |-> "SetTransformations",
        args |-> <<<<250, 250, 250>>, 0, 0, 0, <<4500, 8500, -2750>>>>],
       [fn |-> "RenderTrees", line |-> 1837, op |-> "SetShaderColor",
        args |-> <<961, 871, 702, 1000>>],
       [fn |-> "RenderTrees", line |-> 1840, op |-> "DrawCylinderMesh",
        args |-> << >>],
       [fn |-> "RenderTrees", line |-> 1861, op |-> "SetTransformations",
        args |-> <<<<190, 190, 190>>, 90, 0, 0, <<4500, 8750, -2750>>>>],
       [fn |-> "RenderTrees", line |-> 1863, op |-> "SetShaderColor",
        args |-> <<961, 871, 702, 1000>>],
       [fn |-> "RenderTrees", line |-> 1866, op |-> "DrawTorusMesh",
        args |-> << >>],
       [fn |-> "RenderTrees", line |-> 1887, op |-> "SetTransformations",
        args |-> <<<<500, 2500, 500>>, 0, 0, 0, <<4500, 8750, -2750>>>>],
       [fn |-> "RenderTrees", line |-> 1889, op |-> "SetShaderColor",
        args |-> <<100, 100, 100, 1000>>],
       [fn |-> "RenderTrees", line |-> 1890, op |-> "SetShaderTexture",
        args |-> <<"leaf">>],
       [fn |-> "RenderTrees", line |-> 1891, op |-> "SetTextureUVScale",
        args |-> <<4000, 4000>>],
       [fn |-> "RenderTrees", line |-> 1893, op |-> "DrawConeMesh",
        args |-> << >>] >>

\* the calls in the body of SceneManager::RenderWoodenBowl, in their order
RenderWoodenBowl ==
    << [fn |-> "RenderWoodenBowl", line |-> 1924, op |-> "SetTransformations",
        args |-> <<<<1350, 400, 400>>, 90, 0, 0, <<0, 8750, -2900>>>>],
       [fn |-> "RenderWoodenBowl", line |-> 1927, op |-> "SetShaderTexture",
        args |-> <<"rusticwood">>],
       [fn |-> "RenderWoodenBowl", line |-> 1928, op |-> "SetShaderMaterial",
        args |-> <<"wood">>],
       [fn |-> "RenderWoodenBowl", line |-> 1931, op |-> "DrawTorusMesh",
        args |-> << >>],
       [fn |-> "RenderWoodenBowl", line |-> 1952, op |-> "SetTransformations",
        args |-> <<<<1700, 200, 500>>, 180, 0, 0, <<0, 8700, -2900>>>>],
       [fn |-> "RenderWoodenBowl", line |-> 1955, op |-> "SetShaderTexture",
        args |-> <<"rusticwood">>],
       [fn |-> "RenderWoodenBowl", line |-> 1956, op |-> "SetShaderMaterial",
        args |-> <<"wood">>],
       [fn |-> "RenderWoodenBowl", line |-> 1958, op |-> "DrawHalfSphereMesh",
        args |-> << >>] >>

\* a variant of RenderScene that draws the bowl first and nothing of its own
RenderSceneBowlFirst ==
    RenderWoodenBowl \o RenderWall \o RenderFireBox \o RenderTrees

\* the calls in the body of SceneManager::RenderScene, in their order
RenderScene ==
    RenderWall \o
    RenderFireBox \o
    RenderTrees \o
    RenderWoodenBowl \o
    << [fn |-> "RenderScene", line |-> 697, op |-> "SetTransformations",
        args |-> <<<<20000, 1000, 10000>>, 0, 0, 0, <<0, 0, 0>>>>],
       [fn |-> "RenderScene", line |-> 700, op |-> "SetShaderTexture",
        args |-> <<"floor">>],
       [fn |-> "RenderScene", line |-> 701, op |-> "SetTextureUVScale",
        args |-> <<1000, 1000>>],
       [fn |-> "RenderScene", line |-> 703, op |-> "DrawPlaneMesh",
        args |-> << >>],
       [fn |-> "RenderScene", line |-> 726, op |-> "SetTransformations",
        args |-> <<<<40000, 500, 100>>, 0, 0, 0, <<0, 250, -9950>>>>],
       [fn |-> "RenderScene", line |-> 728, op |-> "SetShaderColor",
        args |-> <<1000, 1000, 1000, 1000>>],
       [fn |-> "RenderScene", line |-> 729, op |-> "SetShaderMaterial",
        args |-> <<"wood">>],
       [fn |-> "RenderScene", line |-> 732, op |-> "DrawBoxMesh",
        args |-> << >>],
       [fn |-> "RenderScene", line |-> 758, op |-> "SetTransformations",
        args |-> <<<<5250, 500, 100>>, 0, 90, 0, <<-6030, 250, -6870>>>>],
       [fn |-> "RenderScene", line |-> 760, op |-> "SetShaderColor",
        args |-> <<1000, 1000, 1000, 1000>>],
       [fn |-> "RenderScene", line |-> 761, op |-> "SetShaderMaterial",
        args |-> <<"wood">>],
       [fn |-> "RenderScene", line |-> 764, op |-> "DrawBoxMesh",
        args |-> << >>],
       [fn |-> "RenderScene", line |-> 790, op |-> "SetTransformations",
        args |-> <<<<5250, 500, 100>>, 0, 90, 0, <<6030, 250, -6870>>>>],
       [fn |-> "RenderScene", line |-> 792, op |-> "SetShaderColor",
        args |-> <<1000, 1000, 1000, 1000>>],
       [fn |-> "RenderScene", line |-> 793, op |-> "SetShaderMaterial",
        args |-> <<"wood">>],
       [fn |-> "RenderScene", line |-> 796, op |-> "DrawBoxMesh",
        args |-> << >>],
       [fn |-> "RenderScene", line |-> 818, op |-> "SetTransformations",
        args |-> <<<<12000, 10000, 6000>>, 0, 0, 0, <<0, 11000, -7000>>>>],
       [fn |-> "RenderScene", line |-> 821, op |-> "SetShaderTexture",
        args |-> <<"shiplap">>],
       [fn |-> "RenderScene", line |-> 822, op |-> "SetShaderMaterial",
        args |-> <<"shiplap">>],
       [fn |-> "RenderScene", line |-> 823, op |-> "SetTextureUVScale",
        args |-> <<2000, 2000>>],
       [fn |-> "RenderScene", line |-> 825, op |-> "DrawBoxMesh",
        args |-> << >>],
       [fn |-> "RenderScene", line |-> 846, op |-> "SetTransformations",
        args |-> <<<<2750, 6000, 6000>>, 0, 0, 0, <<-4600, 3000, -7000>>>>],
       [fn |-> "RenderScene", line |-> 849, op |-> "SetShaderTexture",
        args |-> <<"shiplap">>],
       [fn |-> "RenderScene", line |-> 850, op |-> "SetShaderMaterial",
        args |-> <<"shiplap">>],
       [fn |-> "RenderScene", line |-> 852, op |-> "DrawBoxMesh",
        args |-> << >>],
       [fn |-> "RenderScene", line |-> 874, op |-> "SetTransformations",
        args |-> <<<<2750, 6000, 6000>>, 0, 0, 0, <<4600, 3000, -7000>>>>],
       [fn |-> "RenderScene", line |-> 877, op |-> "SetShaderTexture",
        args |-> <<"shiplap">>],
       [fn |-> "RenderScene", line |-> 878, op |-> "SetShaderMaterial",
        args |-> <<"shiplap">>],
       [fn |-> "RenderScene", line |-> 880, op |-> "DrawBoxMesh",
        args |-> << >>],
       [fn |-> "RenderScene", line |-> 905, op |-> "SetTransformations",
        args |-> <<<<500, 16000, 500>>, 0, 0, 0, <<-5900, 8000, -4000>>>>],
       [fn |-> "RenderScene", line |-> 907, op |-> "SetShaderColor",
        args |-> <<1000, 1000, 1000, 1000>>],
       [fn |-> "RenderScene", line |-> 908, op |-> "SetShaderMaterial",
        args |-> <<"wood">>],
       [fn |-> "RenderScene", line |-> 911, op |-> "DrawBoxMesh",
        args |-> << >>],
       [fn |-> "RenderScene", line |-> 933, op |-> "SetTransformations",
        args |-> <<<<500, 16000, 500>>, 0, 0, 0, <<5900, 8000, -4000>>>>],
       [fn |-> "RenderScene", line |-> 935, op |-> "SetShaderColor",
        args |-> <<1000, 1000, 1000, 1000>>],
       [fn |-> "RenderScene", line |-> 936, op |-> "SetShaderMaterial",
        args |-> <<"wood">>],
       [fn |-> "RenderScene", line |-> 939, op |-> "DrawBoxMesh",
        args |-> << >>],
       [fn |-> "RenderScene", line |-> 961, op |-> "SetTransformations",
        args |-> <<<<500, 16000, 500>>, 0, 0, 0, <<-5900, 8000, -9750>>>>],
       [fn |-> "RenderScene", line |-> 963, op |-> "SetShaderColor",
        args |-> <<1000, 1000, 1000, 1000>>],
       [fn |-> "RenderScene", line |-> 964, op |-> "SetShaderMaterial",
        args |-> <<"wood">>],
       [fn |-> "RenderScene", line |-> 967, op |-> "DrawBoxMesh",
        args |-> << >>],
       [fn |-> "RenderScene", line |-> 989, op |-> "SetTransformations",
        args |-> <<<<500, 16000, 500>>, 0, 0, 0, <<5900, 8000, -9750>>>>],
       [fn |-> "RenderScene", line |-> 991, op |-> "SetShaderColor",
        args |-> <<1000, 1000, 1000, 1000>>],
       [fn |-> "RenderScene", line |-> 992, op |-> "SetShaderMaterial",
        args |-> <<"wood">>],
       [fn |-> "RenderScene", line |-> 995, op |-> "DrawBoxMesh",
        args |-> << >>],
       [fn |-> "RenderScene", line |-> 1017, op |-> "SetTransformations",
        args |-> <<<<10000, 1000, 2000>>, 0, 0, 0, <<0, 8000, -3000>>>>],
       [fn |-> "RenderScene", line |-> 1020, op |-> "SetShaderTexture",
        args |-> <<"mantle">>],
       [fn |-> "RenderScene", line |-> 1021, op |-> "SetShaderMaterial",
        args |-> <<"wood">>],
       [fn |-> "RenderScene", line |-> 1023, op |-> "DrawBoxMesh",
        args |-> << >>],
       [fn |-> "RenderScene", line |-> 1044, op |-> "SetTransformations",
        args |-> <<<<9000, 5000, 250>>, 0, 0, 0, <<0, 11500, -3600>>>>],
       [fn |-> "RenderScene", line |-> 1046, op |-> "SetShaderColor",
        args |-> <<0, 0, 0, 1000>>],
       [fn |-> "RenderScene", line |-> 1049, op |-> "DrawBoxMesh",
        args |-> << >>],
       [fn |-> "RenderScene", line |-> 1070, op |-> "SetTransformations",
        args |-> <<<<8750, 4750, 250>>, 0, 0, 0, <<0, 11500, -3590>>>>],
       [fn |-> "RenderScene", line |-> 1072, op |-> "SetShaderColor",
        args |-> <<10, 10, 10, 1000>>],
       [fn |-> "RenderScene", line |-> 1074, op |-> "SetShaderMaterial",
        args |-> <<"metal">>],
       [fn |-> "RenderScene", line |-> 1075, op |-> "SetTextureUVScale",
        args |-> <<1000, 1000>>],
       [fn |-> "RenderScene", line |-> 1077, op |-> "DrawBoxMesh",
        args |-> << >>],
       [fn |-> "RenderScene", line |-> 1100, op |-> "SetTransformations",
        args |-> <<<<210, 210, 170>>, 90, 0, 0, <<-3500, 8600, -2600>>>>],
       [fn |-> "RenderScene", line |-> 1102, op |-> "SetShaderColor",
        args |-> <<900, 900, 900, 1000>>],
       [fn |-> "RenderScene", line |-> 1103, op |-> "SetShaderMaterial",
        args |-> <<"metal">>],
       [fn |-> "RenderScene", line |-> 1106, op |-> "DrawSphereMesh",
        args |-> << >>],
       [fn |-> "RenderScene", line |-> 1127, op |-> "SetTransformations",
        args |-> <<<<150, 150, 150>>, 90, 0, 0, <<-3500, 8740, -2600>>>>],
       [fn |-> "RenderScene", line |-> 1129, op |-> "SetShaderColor",
        args |-> <<900, 900, 900, 1000>>],
       [fn |-> "RenderScene", line |-> 1130, op |-> "SetShaderMaterial",
        args |-> <<"metal">>],
       [fn |-> "RenderScene", line |-> 1133, op |-> "DrawSphereMesh",
        args |-> << >>],
       [fn |-> "RenderScene", line |-> 1154, op |-> "SetTransformations",
        args |-> <<<<110, 110, 110>>, 90, 0, 0, <<-3500, 8870, -2600>>>>],
       [fn |-> "RenderScene", line |-> 1156, op |-> "SetShaderColor",
        args |-> <<900, 900, 900, 1000>>],
       [fn |-> "RenderScene", line |-> 1157, op |-> "SetShaderMaterial",
        args |-> <<"metal">>],
       [fn |-> "RenderScene", line |-> 1159, op |-> "DrawSphereMesh",
        args |-> << >>],
       [fn |-> "RenderScene", line |-> 1180, op |-> "SetTransformations",
        args |-> <<<<90, 130, 90>>, 0, 0, 0, <<-3500, 8940, -2600>>>>],
       [fn |-> "RenderScene", line |-> 1182, op |-> "SetShaderColor",
        args |-> <<10, 10, 10, 1000>>],
       [fn |-> "RenderScene", line |-> 1183, op |-> "SetShaderMaterial",
        args |-> <<"metal">>],
       [fn |-> "RenderScene", line |-> 1186, op |-> "DrawCylinderMesh",
        args |-> << >>],
       [fn |-> "RenderScene", line |-> 1207, op |-> "SetTransformations",
        args |-> <<<<100, 100, 30>>, 90, 0, 0, <<-3500, 8940, -2600>>>>],
       [fn |-> "RenderScene", line |-> 1209, op |-> "SetShaderColor",
        args |-> <<10, 10, 10, 1000>>],
       [fn |-> "RenderScene", line |-> 1210, op |-> "SetShaderMaterial",
        args |-> <<"metal">>],
       [fn |-> "RenderScene", line |-> 1212, op |-> "DrawTorusMesh",
        args |-> << >>] >>

-----------------------------------------------------------------------------
(* PrepareScene, then RenderScene frame after frame *)

\* the calls a scene function makes, those of the functions it calls included
Script(fn) == IF fn = "PrepareScene" THEN PrepareScene ELSE RenderScene

\* the loads of LoadSceneTextures that have returned false so far
FailedLoads == (scene.at - 1) - Len(loaded)

\* stbi_load's results in the scene: a 3-channel image, and while fewer than
\* MaxAnomalies loads have failed, no image and a 1-channel image
SceneImages ==
    { 3 } \cup (IF FailedLoads < MaxAnomalies THEN { NoImage, 1 } ELSE {})

NoDraw == [op |-> "none", args |-> << >>]

\* the record of the calls since the last draw, after a call of op
CallsSince(op, args) ==
    IF op \in DrawOps
    THEN [transforms |-> 0, colors |-> 0, textures |-> 0,
          draws |-> sinceDraw.draws + 1,
          lastDraw |-> [op |-> op, args |-> args]]
    ELSE IF op = "SetTransformations"
    THEN [sinceDraw EXCEPT !.transforms = @ + 1, !.colors = 0, !.textures = 0]
    ELSE IF op = "SetShaderColor"
    THEN [sinceDraw EXCEPT !.colors = @ + 1]
    ELSE IF op = "SetShaderTexture"
    THEN [sinceDraw EXCEPT !.textures = @ + 1]
    ELSE sinceDraw

\* the call is made with the arguments the source gives it
Dispatch(call) ==
    \/ /\ call.op = "CreateGLTexture"
       /\ \E image \in SceneImages : CreateGLTexture(call.args[2], image)
    \/ /\ call.op = "BindGLTextures"
       /\ BindGLTextures
    \/ /\ call.op = "DefineObjectMaterials"
       /\ DefineObjectMaterials
    \/ /\ call.op = "SetupSceneLights"
       /\ SetupSceneLights
    \/ /\ call.op \in LoadOps
       /\ LoadMesh(call.op)
    \/ /\ call.op \in DrawOps
       /\ DrawMesh(call.op, call.args)
    \/ /\ call.op = "SetTransformations"
       /\ SetTransformations(call.args[1], call.args[2], call.args[3],
                             call.args[4], call.args[5])
    \/ /\ call.op = "SetShaderColor"
       /\ SetShaderColor(call.args[1], call.args[2], call.args[3], call.args[4])
    \/ /\ call.op = "SetShaderTexture"
       /\ SetShaderTexture(call.args[1])
    \/ /\ call.op = "SetTextureUVScale"
       /\ SetTextureUVScale(call.args[1], call.args[2])
    \/ /\ call.op = "SetShaderMaterial"
       /\ SetShaderMaterial(call.args[1])

\* the application calls PrepareScene once, before the first frame
BeginPrepareScene ==
    /\ pc = "running"
    /\ scene.fn = "idle"
    /\ ~scene.prepared
    /\ scene' = [scene EXCEPT !.fn = "PrepareScene", !.at = 1]
    /\ sinceDraw' = [transforms |-> 0, colors |-> 0, textures |-> 0,
                     draws |-> 0, lastDraw |-> NoDraw]
    /\ lastCall' = [op |-> "PrepareScene"]
    /\ UNCHANGED <<m_pShaderManager, texVars, glVars, matVars, loaded, pc,
                   meshes>>

\* the application calls RenderScene once per frame
BeginRenderScene ==
    /\ pc = "running"
    /\ scene.fn = "idle"
    /\ scene.prepared
    /\ scene' = [scene EXCEPT !.fn = "RenderScene", !.at = 1,
                              !.frames = IF @ = "none" THEN "first" ELSE "later"]
    /\ sinceDraw' = [transforms |-> 0, colors |-> 0, textures |-> 0,
                     draws |-> 0, lastDraw |-> NoDraw]
    /\ lastCall' = [op |-> "RenderScene"]
    /\ UNCHANGED <<m_pShaderManager, texVars, glVars, matVars, loaded, pc,
                   meshes>>

\* the running scene function makes its next call, and returns after its last
SceneStep ==
    /\ scene.fn # "idle"
    /\ Dispatch(Script(scene.fn)[scene.at])
    /\ sinceDraw' = CallsSince(Script(scene.fn)[scene.at].op,
                               Script(scene.fn)[scene.at].args)
    /\ scene' = IF scene.at < Len(Script(scene.fn))
                THEN [scene EXCEPT !.at = @ + 1]
                ELSE [scene EXCEPT !.fn = "idle", !.at = 0, !.prepared = TRUE]

NextScene ==
    \/ BeginPrepareScene
    \/ BeginRenderScene
    \/ SceneStep

InitScene == \E p \in {"valid", "null"} : Construct(p)

SpecScene == InitScene /\ [][NextScene]_vars

-----------------------------------------------------------------------------
(* The calls around a mesh draw *)

\* the next call of the running scene function
NextCall == Script(scene.fn)[scene.at]

\* a draw is the next call of RenderScene
DrawIsNext == scene.fn = "RenderScene" /\ NextCall.op \in DrawOps

\* the draw of the two end caps of a cylinder, without its sides
CapDraw == [op |-> "DrawCylinderMesh", args |-> <<TRUE, TRUE, FALSE>>]

\* the draw of the sides of a cylinder, without its end caps
SideDraw == [op |-> "DrawCylinderMesh", args |-> <<FALSE, FALSE>>]

\* C18 as stated: in RenderScene, when a mesh is drawn, SetTransformations
\* has been called exactly once since the previous draw, or since the start
\* of the frame.
C18_OneTransformPerDraw ==
    [][ (scene.fn = "RenderScene" /\ lastCall'.op \in DrawOps) =>
            sinceDraw.transforms = 1 ]_vars

\* C18, amended: in RenderScene, when a mesh is drawn, SetTransformations has
\* been called exactly once since the previous draw, or since the start of
\* the frame, unless the draw is that of the end caps of a cylinder: then the
\* previous draw was that of the sides of the cylinder and SetTransformations
\* has not been called since.
C18_OneTransformPerDrawButCaps ==
    [][ (scene.fn = "RenderScene" /\ lastCall'.op \in DrawOps) =>
            IF [op |-> lastCall'.op, args |-> lastCall'.args] = CapDraw
            THEN /\ sinceDraw.transforms = 0
                 /\ sinceDraw.lastDraw = SideDraw
            ELSE sinceDraw.transforms = 1 ]_vars

\* in a frame after the first, the end caps of a log of the fire box are
\* about to be drawn with the transformations of its sides
C18_Witness ==
    /\ DrawIsNext
    /\ scene.frames = "later"
    /\ NextCall.line = 1618
    /\ [op |-> NextCall.op, args |-> NextCall.args] = CapDraw
    /\ sinceDraw.transforms = 0
    /\ sinceDraw.lastDraw = SideDraw
    /\ lastCall.op = "SetShaderMaterial"

\* C19: in RenderScene, when a mesh is drawn, exactly one call of
\* SetShaderColor or SetShaderTexture has been made since the
\* SetTransformations call before the draw (or since the previous draw).
C19_OneOfColorOrTexture ==
    [][ (scene.fn = "RenderScene" /\ lastCall'.op \in DrawOps) =>
            sinceDraw.colors + sinceDraw.textures = 1 ]_vars

\* the place of a call in the order of PrepareScene: textures, materials,
\* lights, mesh loads
Phase(op) ==
    CASE op = "PrepareScene" -> 0
      [] op \in {"CreateGLTexture", "BindGLTextures"} -> 1
      [] op = "DefineObjectMaterials" -> 2
      [] op = "SetupSceneLights" -> 3
      [] op \in LoadOps -> 4
      [] OTHER -> 5

\* C20: the calls of PrepareScene come in the order textures, materials,
\* lights, mesh loads, none of them is a mesh draw, and a mesh is drawn only
\* by RenderScene.
C20_PrepareSceneOrderNoDraw ==
    [][ /\ scene.fn = "PrepareScene" =>
               /\ Phase(lastCall'.op) \in 1 .. 4
               /\ Phase(lastCall.op) <= Phase(lastCall'.op)
        /\ lastCall'.op \in DrawOps => scene.fn = "RenderScene" ]_vars

-----------------------------------------------------------------------------
(* The order of the draws of a frame *)

\* the function that issues the k-th draw of a frame: 1 draw of the wall,
\* 19 of the fire box, 6 of the trees, 2 of the bowl, then 19 of RenderScene
\* itself
GroupOfDraw(k) ==
    IF k <= 1 THEN "RenderWall"
    ELSE IF k <= 20 THEN "RenderFireBox"
    ELSE IF k <= 26 THEN "RenderTrees"
    ELSE IF k <= 28 THEN "RenderWoodenBowl"
    ELSE "RenderScene"

\* RenderScene makes its last call and returns
RenderSceneReturns == scene.fn = "RenderScene" /\ scene'.fn = "idle"

\* C21: in every frame the draws come in the same order: the draw of
\* RenderWall, then the draws of RenderFireBox, of RenderTrees, of
\* RenderWoodenBowl, then those in the body of RenderScene; a frame that ends
\* has issued all 47 of them.
C21_DrawOrderFixed ==
    [][ /\ (scene.fn = "RenderScene" /\ lastCall'.op \in DrawOps) =>
               /\ NextCall.fn = GroupOfDraw(sinceDraw.draws + 1)
               /\ sinceDraw'.draws = sinceDraw.draws + 1
        /\ (RenderSceneReturns /\ pc' = "running") => sinceDraw'.draws = 47 ]_vars

\* in a frame after the first the wall, the fire box, the trees and the bowl
\* have been drawn and the floor, the first object of RenderScene itself, is
\* next
C21_Witness ==
    /\ DrawIsNext
    /\ scene.frames = "later"
    /\ sinceDraw.draws = 28
    /\ sinceDraw.lastDraw.op = "DrawHalfSphereMesh"
    /\ NextCall.fn = "RenderScene"
    /\ NextCall.op = "DrawPlaneMesh"

-----------------------------------------------------------------------------
(* The uniforms a dispatcher operation leaves alone *)

\* every uniform outside fields keeps its value in the step
OtherUniformsKept(fields) ==
    \A f \in (DOMAIN shader) \ fields : shader'[f] = shader[f]

\* C22: SetTransformations changes no uniform but model, SetShaderColor none
\* but bUseTexture and objectColor, SetShaderTexture none but bUseTexture and
\* objectTexture, SetTextureUVScale none but UVscale, SetShaderMaterial none
\* but diffuseColor, specularColor and shininess.
C22_OnlyOwnUniforms ==
    [][ /\ lastCall'.op = "SetTransformations" => OtherUniformsKept({"model"})
        /\ lastCall'.op = "SetShaderColor" =>
               OtherUniformsKept({"bUseTexture", "objectColor"})
        /\ lastCall'.op = "SetShaderTexture" =>
               OtherUniformsKept({"bUseTexture", "objectTexture"})
        /\ lastCall'.op = "SetTextureUVScale" => OtherUniformsKept({"UVscale"})
        /\ lastCall'.op = "SetShaderMaterial" =>
               OtherUniformsKept({"diffuseColor", "specularColor", "shininess"})
      ]_vars

\* SetShaderMaterial("metal") has just pushed the metal record after a
\* SetShaderColor call: the colour and the transformation set before it, the
\* sampler and the UV scale of earlier objects and the lights are as they were
C22_Witness ==
    /\ lastCall.op = "SetShaderMaterial"
    /\ lastCall.tag = "metal"
    /\ shader.diffuseColor = <<400, 400, 400>>
    /\ shader.shininess = 52000
    /\ shader.bUseTexture = 0
    /\ shader.objectColor = <<10, 10, 10, 1000>>
    /\ shader.objectTexture > 0
    /\ shader.UVscale # DefaultUniforms.UVscale
    /\ shader.bUseLighting = 1
    /\ shader.model # DefaultUniforms.model

-----------------------------------------------------------------------------
(* The registries outside teardown *)

\* the entries of the texture registry are the loads that returned true, in
\* their order
RegistryIsLoads ==
    /\ m_loadedTextures = Len(loaded)
    /\ \A k \in 1 .. Len(loaded) :
           Slot(k - 1) = [tag |-> loaded[k][1], ID |-> loaded[k][2]]

\* C23: a call other than CreateGLTexture leaves the texture registry as it
\* was and a call other than DefineObjectMaterials leaves the material
\* registry as it was; CreateGLTexture keeps every entry and adds at most one
\* after the last, DefineObjectMaterials keeps every record and adds records
\* after the last.  So the texture registry always holds the successful
\* loads in their order.
C23_RegistriesAppendOnly ==
    [][ /\ lastCall'.op # "CreateGLTexture" => UNCHANGED texVars
        /\ lastCall'.op # "DefineObjectMaterials" => UNCHANGED m_objectMaterials
        /\ lastCall'.op = "CreateGLTexture" =>
               /\ m_loadedTextures' \in {m_loadedTextures, m_loadedTextures + 1}
               /\ \A i \in 0 .. m_loadedTextures - 1 : Slot(i)' = Slot(i)
        /\ lastCall'.op = "DefineObjectMaterials" =>
               /\ Len(m_objectMaterials') >= Len(m_objectMaterials)
               /\ SubSeq(m_objectMaterials', 1, Len(m_objectMaterials)) =
                      m_objectMaterials
        /\ RegistryIsLoads' ]_vars

\* in a frame after the first, after a SetShaderTexture call: the ten loads
\* that succeeded are the ten entries and the catalog is the nine records
C23_Witness ==
    /\ scene.frames = "later"
    /\ lastCall.op = "SetShaderTexture"
    /\ Len(loaded) = 10
    /\ RegistryIsLoads
    /\ m_objectMaterials = Catalog

-----------------------------------------------------------------------------
(* The uniforms in effect at a draw, read off the calls of RenderScene *)

\* the operations that write a uniform
WritersOf(field) ==
    CASE field = "model" -> {"SetTransformations"}
      [] field = "objectColor" -> {"SetShaderColor"}
      [] field = "bUseTexture" -> {"SetShaderColor", "SetShaderTexture"}
      [] field = "objectTexture" -> {"SetShaderTexture"}
      [] field = "UVscale" -> {"SetTextureUVScale"}
      [] field = "material" -> {"SetShaderMaterial"}

\* the index of the last call of RenderScene before index at that writes
\* field, 0 when there is none
RECURSIVE LastWriteBefore(_, _)
LastWriteBefore(field, at) ==
    IF at <= 1 THEN 0
    ELSE IF RenderScene[at - 1].op \in WritersOf(field) THEN at - 1
    ELSE LastWriteBefore(field, at - 1)

\* the call of this frame that wrote field last, 0 when this frame has not
\* written it yet
WriteThisFrame(field) == LastWriteBefore(field, scene.at)

\* the call that wrote field last: one of this frame or, in a later frame,
\* the last one of the frame before; 0 when field was never written
LastWrite(field) ==
    IF WriteThisFrame(field) > 0 THEN WriteThisFrame(field)
    ELSE IF scene.frames = "later"
    THEN LastWriteBefore(field, Len(RenderScene) + 1)
    ELSE 0

\* the arguments of the call that wrote field last
LastArgs(field) == RenderScene[LastWrite(field)].args

\* the record of the catalog that carries tag
CatalogRecord(tag) ==
    Catalog[CHOOSE i \in 1 .. Len(Catalog) : Catalog[i].tag = tag]

\* the uniforms other than the sampler as the calls made so far leave them,
\* whatever the texture registry holds
UniformsAsCalled ==
    LET transform == LastWrite("model")
        color == LastWrite("objectColor")
        either == LastWrite("bUseTexture")
        uv == LastWrite("UVscale")
        material == LastWrite("material")
    IN  /\ shader.model =
               IF transform = 0 THEN DefaultUniforms.model
               ELSE LET args == RenderScene[transform].args
                    IN  ModelMatrix(args[1], args[2], args[3], args[4], args[5])
        /\ shader.objectColor =
               IF color = 0 THEN DefaultUniforms.objectColor
               ELSE RenderScene[color].args
        /\ shader.bUseTexture =
               IF either = 0 THEN DefaultUniforms.bUseTexture
               ELSE IF RenderScene[either].op = "SetShaderTexture" THEN 1 ELSE 0
        /\ shader.UVscale =
               IF uv = 0 THEN DefaultUniforms.UVscale
               ELSE RenderScene[uv].args
        /\ LET record == IF material = 0 THEN DefaultUniforms
                         ELSE CatalogRecord(RenderScene[material].args[1])
           IN  /\ shader.diffuseColor = record.diffuseColor
               /\ shader.specularColor = record.specularColor
               /\ shader.shininess = record.shininess
        /\ shader.bUseLighting = 1
        /\ shader.lights = SceneLights

\* the slot a tag has when every load of LoadSceneTextures succeeds
AuthoredSlot(tag) ==
    (CHOOSE k \in 1 .. Len(LoadSceneTextures) :
        /\ LoadSceneTextures[k].op = "CreateGLTexture"
        /\ LoadSceneTextures[k].args[2] = tag) - 1

\* the tags of LoadSceneTextures
SceneTags ==
    { LoadSceneTextures[k].args[2] :
        k \in { j \in 1 .. Len(LoadSceneTextures) :
                  LoadSceneTextures[j].op = "CreateGLTexture" } }

\* the loads of LoadSceneTextures before that of tag that failed
FailedBefore(tag) ==
    Cardinality({ t \in SceneTags \ LoadedTags :
                    AuthoredSlot(t) < AuthoredSlot(tag) })

-----------------------------------------------------------------------------
(* Frames after failed loads *)

\* the tag of the SetShaderTexture call that wrote the sampler last
SampledTag == LastArgs("objectTexture")[1]

\* whichever loads failed, PrepareScene and RenderScene do not fault, a frame
\* that has ended has issued its 47 draws, and at every draw the uniforms
\* other than the sampler are as the calls of RenderScene leave them
FramesComplete ==
    /\ pc = "running"
    /\ (scene.fn = "idle" /\ scene.frames # "none") => sinceDraw.draws = 47
    /\ DrawIsNext =>
           /\ NextCall.fn = GroupOfDraw(sinceDraw.draws + 1)
           /\ UniformsAsCalled
           /\ LastWrite("objectTexture") > 0

\* C24 as stated: with a shader manager, whichever loads of LoadSceneTextures
\* fail, PrepareScene and RenderScene run to their end with the same draws and
\* the same uniforms at every draw, but for the sampler of the draws whose
\* texture failed to load, which is -1; the other draws see the slot their
\* texture has when every load succeeds.
C24_OnlyFailedTexturesDiffer ==
    m_pShaderManager = "valid" =>
        /\ FramesComplete
        /\ DrawIsNext =>
               shader.objectTexture =
                   IF SampledTag \in LoadedTags
                   THEN AuthoredSlot(SampledTag)
                   ELSE NotFound

\* C24, amended: with a shader manager, whichever loads of LoadSceneTextures
\* fail, PrepareScene and RenderScene run to their end with the same draws and
\* the same uniforms at every draw, but for the sampler: it is -1 at the draws
\* whose texture failed to load, and at the other draws it is the slot their
\* texture has when every load succeeds less the number of loads that failed
\* before that of their texture.
C24_FailedLoadsShiftSlots ==
    m_pShaderManager = "valid" =>
        /\ FramesComplete
        /\ DrawIsNext =>
               shader.objectTexture =
                   IF SampledTag \in LoadedTags
                   THEN AuthoredSlot(SampledTag) - FailedBefore(SampledTag)
                   ELSE NotFound

\* the load of shiplap failed on the channel count; in a frame after the
\* first the mantle is about to be drawn with sampler 2, where its texture is
\* in slot 3 when every load succeeds
C24_Witness ==
    /\ DrawIsNext
    /\ scene.frames = "later"
    /\ "shiplap" \notin LoadedTags
    /\ heapImages = 1
    /\ sinceDraw.textures = 1
    /\ SampledTag = "mantle"
    /\ AuthoredSlot("mantle") = 3
    /\ shader.objectTexture = 2

-----------------------------------------------------------------------------
(* CreateGLTexture: what a call leaves behind *)

\* C25: a CreateGLTexture call leaves no decoded pixel buffer unfreed, and a
\* texture name it generated is held by an entry of the registry when it
\* returns (the program has no call that deletes a texture name), also when
\* the call returns false because of the channel count.
C25_NoOrphanedBufferOrName ==
    [][ lastCall'.op = "CreateGLTexture" =>
            /\ heapImages' = heapImages
            /\ glNames' > glNames =>
                   \E i \in 0 .. m_loadedTextures' - 1 : Slot(i)'.ID = glNames'
      ]_vars

-----------------------------------------------------------------------------
(* The bindings LoadSceneTextures leaves *)

\* LoadSceneTextures has returned
LoadSceneTexturesDone ==
    \/ scene.prepared
    \/ scene.fn = "PrepareScene" /\ scene.at > Len(LoadSceneTextures)

\* C26: once LoadSceneTextures has returned, whichever of its loads failed,
\* the loads that succeeded fill the slots 0 .. count - 1 in the order of
\* their calls, and for each of their tags t the texture unit
\* FindTextureSlot(t) has the texture FindTextureID(t) bound, so that the
\* slot SetShaderTexture(t) pushes is the unit that holds the texture of t.
C26_SlotIsUnitOfTexture ==
    LoadSceneTexturesDone =>
        /\ RegistryIsLoads
        /\ \A k, l \in 1 .. Len(loaded) :
               k < l => AuthoredSlot(loaded[k][1]) < AuthoredSlot(loaded[l][1])
        /\ \A t \in LoadedTags :
               /\ FindTextureSlot(t) \in 0 .. m_loadedTextures - 1
               /\ TextureSlotOf(t) = FindTextureSlot(t)
               /\ glBound2D[FindTextureSlot(t)] = FindTextureID(t)

\* the load of floor failed on the channel count and took texture name 1;
\* BindGLTextures has just run: cartoon, the last tag, is in slot 9 and unit
\* 9 holds its texture name 11
C26_Witness ==
    /\ lastCall.op = "BindGLTextures"
    /\ LoadSceneTexturesDone
    /\ "floor" \notin LoadedTags
    /\ heapImages = 1
    /\ Len(loaded) = 10
    /\ FindTextureSlot("cartoon") = 9
    /\ FindTextureID("cartoon") = 11
    /\ glBound2D[9] = 11

-----------------------------------------------------------------------------
(* The uniforms a draw relies on *)

\* C27: when a mesh is drawn in RenderScene, a call of the same RenderScene
\* invocation has set bUseTexture, the material uniforms and, with texturing
\* on, the sampler and the UV scale, with texturing off, the colour; so no
\* draw depends on what an earlier frame, or no call at all, left in a
\* uniform.
C27_DrawStateSetThisFrame ==
    DrawIsNext =>
        /\ WriteThisFrame("bUseTexture") > 0
        /\ WriteThisFrame("material") > 0
        /\ IF RenderScene[WriteThisFrame("bUseTexture")].op = "SetShaderTexture"
           THEN /\ WriteThisFrame("objectTexture") > 0
                /\ WriteThisFrame("UVscale") > 0
           ELSE WriteThisFrame("objectColor") > 0

-----------------------------------------------------------------------------
(* The dispatcher without a shader manager *)

DispatcherOps ==
    { "SetTransformations", "SetShaderColor", "SetShaderTexture",
      "SetTextureUVScale", "SetShaderMaterial" }

\* C28: with a null shader manager a call of SetTransformations,
\* SetShaderColor, SetShaderTexture, SetTextureUVScale or SetShaderMaterial
\* returns normally and changes neither a uniform nor a registry, whatever
\* the registries hold.
C28_NullManagerNoOp ==
    [][ (m_pShaderManager = "null" /\ lastCall'.op \in DispatcherOps) =>
            /\ pc' = "running"
            /\ UNCHANGED <<shader, texVars, m_objectMaterials>> ]_vars

-----------------------------------------------------------------------------
(* The tags RenderScene uses *)

\* the tags RenderScene passes to an operation
TagsPassedTo(op) ==
    { RenderScene[i].args[1] :
        i \in { j \in 1 .. Len(RenderScene) : RenderScene[j].op = op } }

\* PrepareScene has returned and every load of LoadSceneTextures succeeded
PreparedAllLoaded == scene.prepared /\ Len(loaded) = Cardinality(SceneTags)

\* C29: after a PrepareScene in which every load succeeded, every tag
\* RenderScene passes to SetShaderTexture is found in a slot 0 .. 10, so
\* that no SetShaderTexture call of a frame pushes -1, every tag it passes to
\* SetShaderMaterial is the tag of a record of the material registry, and no
\* two entries of the texture registry and no two records of the material
\* registry carry the same tag.
C29_SceneTagsResolve ==
    PreparedAllLoaded =>
        /\ \A t \in TagsPassedTo("SetShaderTexture") : FindTextureSlot(t) \in 0 .. 10
        /\ lastCall.op = "SetShaderTexture" => shader.objectTexture \in 0 .. 10
        /\ \A t \in TagsPassedTo("SetShaderMaterial") : t \in MaterialTags
        /\ DistinctLoads
        /\ \A i, j \in 1 .. Len(m_objectMaterials) :
               i # j => m_objectMaterials[i].tag # m_objectMaterials[j].tag

\* every load succeeded; in a frame after the first SetShaderTexture
\* ("rusticwood") has pushed slot 8
C29_Witness ==
    /\ PreparedAllLoaded
    /\ scene.frames = "later"
    /\ lastCall.op = "SetShaderTexture"
    /\ lastCall.tag = "rusticwood"
    /\ shader.objectTexture = 8
    /\ Len(m_objectMaterials) = 9
=============================================================================
